---- MODULE Spec2Model ----
(***************************************************************************)
(* Model of the API Lens JS SDK telemetry client (ApiLensClient): the      *)
(* bounded in-memory queue, the size/timer/manual flushes, the retry       *)
(* controller and the shutdown path.                                       *)
(*                                                                         *)
(* JavaScript runs each synchronous stretch of code to completion, so one  *)
(* action is one stretch between two awaits: a call of a public method up  *)
(* to its first await, the completion of a pending fetch, the end of a     *)
(* backoff sleep, or the continuation of an awaiting async function.       *)
(***************************************************************************)
EXTENDS Integers, Sequences, FiniteSets, TLC

\* ------------------------------------------------------------------ bounds
\* Number of capture calls (records are named 1..MaxCaptures in call order).
MaxCaptures == 3
\* The maxRetries option of the clients whose sends are followed attempt by
\* attempt.
MaxRetriesInput == 1
\* Longest list handed to captureMany.
MaxMany == 2
\* Number of clients constructed successfully.
MaxClients == 3
\* Number of constructor calls, failed ones included.
MaxNewCalls == 4
\* Number of handleShutdown calls on one client awaiting their flushAll at once.
MaxPending == 2
\* Number of requests given to the Express middleware.
MaxRequests == 2
\* Number of calls of the intercepted write and end on one response.
MaxWrapCalls == 2
\* The maxRetries option of the clients whose retry waits are studied.
MaxRetriesWide == 2
\* Number of capture() and captureRecord() calls whose argument is followed
\* field by field.
MaxPayloads == 1
\* Number of handleShutdown calls that flush made on the telemetry client.
MaxShutdowns == 1
\* Number of capture calls on the clients whose sends are followed attempt by
\* attempt.
MaxSendCaptures == 2

\* ------------------------------------------------------- program constants
DefaultBatchSize == 200
DefaultMaxQueueSize == 10000
DefaultMaxRetries == 3
DefaultRetryBackoffBaseMs == 250
DefaultRetryBackoffMaxMs == 5000
\* Largest batch the ingest service accepts in one request.
BackendMaxBatch == 1000
DefaultMaxPayloadBytes == 8192

VARIABLES
  cfg,          \* this.config: batchSize, maxQueueSize, maxRetries (effective values)
  enabled,      \* this.config.enabled
  timer,        \* this.flushIntervalId is set (the interval is armed)
  instance,     \* ApiLensClient.instance refers to this client
  queue,        \* this.queue
  droppedCount, \* this.droppedCount
  batches,      \* every batch ever spliced off the queue, with its send progress
  fa,           \* a flushAll() call made by the host: its position and locals
  sd,           \* the handleShutdown({flush: true}) calls, in call order: the
                \* position of each and the flushAll it awaits
  nextId,       \* number of records captureRecord has pushed so far (named 1..nextId)
  armed         \* number of intervals set by setInterval and not yet cleared

\* The variables of the telemetry client.
clientVars == <<cfg, enabled, timer, instance, queue, droppedCount, batches, fa,
                sd, nextId, armed>>

VARIABLES
  registered,   \* ApiLensClient.instance: 0 (undefined) or the client it refers to
  clients,      \* every client a constructor call has returned, in construction order
  lastNew,      \* how the latest constructor call ended
  newCalls      \* number of constructor calls made so far

lifeVars == <<registered, clients, lastNew, newCalls>>

VARIABLES
  baseUrl,      \* the baseUrl option, as a sequence of URL tokens
  ingestPath,   \* the ingestPath option, as a sequence of URL tokens
  endpoint      \* the URL sendBatch has handed to fetchImpl (<<>> before the send)

epVars == <<baseUrl, ingestPath, endpoint>>

VARIABLES
  mwEnabled,    \* the `enabled` constant of createApiLensMiddleware
  reqs          \* the requests given to the middleware, each with its progress

mwVars == <<mwEnabled, reqs>>

VARIABLES
  payloads,     \* the capture() and captureRecord() calls made so far, in call order
  thrown,       \* the calls (by number) that ended with an exception
  defaultEnv    \* this.config.environment

normVars == <<payloads, thrown, defaultEnv>>

VARIABLES
  timeouts,     \* the per-attempt timers of sendBatch that have fired or were cleared
  resp          \* one intercepted response: the closure of the middleware call

hookVars == <<timeouts, resp>>

\* The variables outside the telemetry client.
aux == <<lifeVars, epVars, mwVars, normVars, hookVars>>

\* Values held by the variables a specification does not use.
LifeParked ==
  /\ registered = 0
  /\ clients = <<>>
  /\ lastNew = "none"
  /\ newCalls = 0

EpParked ==
  /\ baseUrl = <<>>
  /\ ingestPath = <<>>
  /\ endpoint = <<>>

MwParked ==
  /\ mwEnabled = FALSE
  /\ reqs = <<>>

NormParked ==
  /\ payloads = <<>>
  /\ thrown = {}
  /\ defaultEnv = <<>>

HooksParked ==
  /\ timeouts = {}
  /\ resp = <<>>

vars == <<clientVars, aux>>

Min(a, b) == IF a <= b THEN a ELSE b
Max(a, b) == IF a >= b THEN a ELSE b

\* ----------------------------------------------------------- utils.ts
\* A loosely typed numeric option: a finite number, or anything Number()
\* turns into NaN (undefined, a non-numeric string).
Num(n) == [fin |-> TRUE, n |-> n]
NotANumber == [fin |-> FALSE, n |-> 0]

toNumber(value, fallback) == IF value.fin THEN value.n ELSE fallback

\* Math.floor is the identity on the integers the model offers.
toNonNegativeInt(value, fallback) ==
  LET num == toNumber(value, fallback)
  IN IF num >= 0 THEN num ELSE fallback

\* ------------------------------------------------------- constructor
EffectiveConfig(input) ==
  [ batchSize    |-> Max(toNonNegativeInt(input.batchSize, DefaultBatchSize), 1),
    maxQueueSize |-> Max(toNonNegativeInt(input.maxQueueSize, DefaultMaxQueueSize), 1),
    maxRetries   |-> Max(toNonNegativeInt(input.maxRetries, DefaultMaxRetries), 0),
    retryBackoffBaseMs |->
      Max(toNonNegativeInt(input.retryBackoffBaseMs, DefaultRetryBackoffBaseMs), 1),
    retryBackoffMaxMs |->
      Max(toNonNegativeInt(input.retryBackoffMaxMs, DefaultRetryBackoffMaxMs), 1) ]

\* Values offered for batchSize and maxQueueSize: absent or non-numeric,
\* negative, zero, and small sizes that captures can reach.
SizeInputs == {NotANumber} \cup {Num(n) : n \in {-1, 0, 1, 2}}

\* The options offered to the constructor, without the combinations that
\* behave like one that is offered: the default queue capacity goes with the
\* default batch size only, since a smaller batch size flushes the queue long
\* before that capacity; batch size 1, which never leaves a record queued,
\* goes with capacity 1; capacity 1 goes with the batch sizes 1 and 2, every
\* larger one behaving like 2. One retry is offered to the client that sends
\* every record by itself (the retry controller is followed with larger
\* batches and more retries under SendConfigInputs and WideConfigInputs).
ConfigInputs ==
  { input \in [ batchSize    : SizeInputs,
                maxQueueSize : SizeInputs,
                maxRetries   : {Num(0), Num(1)},
                retryBackoffBaseMs : {NotANumber},
                retryBackoffMaxMs  : {NotANumber},
                enabled      : BOOLEAN ] :
      LET c == EffectiveConfig(input)
      IN /\ c.maxQueueSize = DefaultMaxQueueSize => c.batchSize = DefaultBatchSize
         /\ c.batchSize = 1 => c.maxQueueSize = 1
         /\ c.maxQueueSize = 1 => c.batchSize <= 2
         /\ c.maxRetries > 0 => c.batchSize = 1 }

\* Options of the clients whose batch size and retry waits are studied: batch
\* sizes around the ingest service's limit, and backoff settings small enough
\* for the cap to come into play within maxRetries attempts.
\* The backoff settings are varied on the client that sends every record by
\* itself, the waits being independent of the size of the batch.
WideConfigInputs ==
  { input \in [ batchSize    : {NotANumber, Num(1), Num(BackendMaxBatch),
                                Num(BackendMaxBatch + 1)},
                maxQueueSize : {NotANumber},
                maxRetries   : {Num(MaxRetriesWide)},
                retryBackoffBaseMs : {NotANumber, Num(0), Num(1), Num(3)},
                retryBackoffMaxMs  : {NotANumber, Num(4)},
                enabled      : {TRUE} ] :
      (input.retryBackoffBaseMs # NotANumber \/ input.retryBackoffMaxMs # NotANumber)
        => input.batchSize = Num(1) }

\* ------------------------------------------------------------ endpoint
RECURSIVE TrimLeft(_)
TrimLeft(s) == IF s # <<>> /\ Head(s) = " " THEN TrimLeft(Tail(s)) ELSE s

RECURSIVE TrimRight(_)
TrimRight(s) ==
  IF s # <<>> /\ s[Len(s)] = " " THEN TrimRight(SubSeq(s, 1, Len(s) - 1)) ELSE s

\* String.prototype.trim
Trim(s) == TrimRight(TrimLeft(s))


\* The URL sendBatch posts to. A URL or path is a sequence of tokens whose
\* concatenation is the string: a scheme word, ":", "/", " ", a host with its
\* port, or a path segment. Paths are made of plain segments (no "." or "..",
\* no query), for which WHATWG URL resolution is concatenation.
DefaultBaseUrl == <<"https", ":", "/", "/", "api.apilens.ai", "/", "api", "/", "v1">>
DefaultIngestPath == <<"ingest", "/", "requests">>

\* String(config.baseUrl || config.base_url || default) in the constructor.
ConfigBaseUrl(input) == IF input = <<>> THEN DefaultBaseUrl ELSE input

\* String(config.ingestPath || config.ingest_path || default) in the constructor.
ConfigIngestPath(input) == IF input = <<>> THEN DefaultIngestPath ELSE input

\* String(this.config.ingestPath || "ingest/requests").trim()
RawIngestPath(p) == Trim(IF p = <<>> THEN DefaultIngestPath ELSE p)

\* A baseUrl used as it is given.
KeepTrailingSlash(u) == u

\* baseUrl.replace(/\/$/, ""): one trailing slash is removed.
StripTrailingSlash(u) ==
  IF u # <<>> /\ u[Len(u)] = "/" THEN SubSeq(u, 1, Len(u) - 1) ELSE u

\* Lower-casing of the scheme words used here (the i flag of the regex).
LowerCase(tok) ==
  CASE tok \in {"HTTP", "Http"} -> "http"
    [] tok \in {"HTTPS", "HttpS"} -> "https"
    [] OTHER -> tok

\* /^https?:\/\//i.test(p)
MatchesHttp(p) ==
  /\ Len(p) >= 4
  /\ LowerCase(p[1]) \in {"http", "https"}
  /\ p[2] = ":"
  /\ p[3] = "/"
  /\ p[4] = "/"

\* p.startsWith("/")
StartsWithSlash(p) == p # <<>> /\ p[1] = "/"

\* new URL(u).origin for u = scheme://host[:port]/...
Origin(u) == SubSeq(u, 1, 5)

\* new URL(p, origin).toString() for a path p that starts with one slash.
ResolveRooted(p, origin) == origin \o p

\* new URL(p, base).toString() for a base that ends with a slash and a path p
\* that starts with a segment.
ResolveRelative(p, base) == base \o p

\* new URL(u) throws a TypeError: of the strings offered here, those that do
\* not begin with http:// or https:// followed by a host.
NewUrlThrows(u) ==
  ~(MatchesHttp(u) /\ Len(u) >= 5 /\ u[5] \notin {"/", ":", " "})

\* sendBatch throws while it computes the endpoint: an ingestPath that is a
\* URL is used verbatim, the other two branches parse `${baseUrl}/`.
EndpointThrows(b, p) ==
  LET rawIngestPath == RawIngestPath(p)
      base == StripTrailingSlash(b)
  IN ~MatchesHttp(rawIngestPath) /\ NewUrlThrows(Append(base, "/"))

\* A baseUrl option without a scheme, which the constructor stores as it is.
SchemelessBaseUrl == <<"api.example.com", "/", "v1">>

\* The endpoint sendBatch computes from config.baseUrl and config.ingestPath.
ResolveEndpoint(b, p) ==
  LET rawIngestPath == RawIngestPath(p)
      base == StripTrailingSlash(b)
  IN IF MatchesHttp(rawIngestPath)
     THEN rawIngestPath
     ELSE IF StartsWithSlash(rawIngestPath)
     THEN ResolveRooted(rawIngestPath, Origin(Append(base, "/")))
     ELSE ResolveRelative(rawIngestPath, Append(base, "/"))

\* ------------------------------------------------------------ batches
\* The send of a batch is followed through the awaits of the code: pc is
\*   "fetching"   sendBatch awaits fetchImpl, its timer armed
\*   "responded"  sendBatch has returned; sendBatchWithRetry has not resumed
\*   "threw"      sendBatch has thrown; sendBatchWithRetry has not resumed
\*   "backoff"    sendBatchWithRetry awaits sleep(backoffMs)
\*   "sent"       sendBatchWithRetry has returned true; flushOnce has not resumed
\*   "unsent"     sendBatchWithRetry has returned false; flushOnce has not resumed
\*   "delivered"  flushOnce has returned the batch's length
\*   "dropped"    flushOnce has logged the drop and returned 0
Final == {"delivered", "dropped"}
InProgress == {"fetching", "responded", "threw", "backoff", "sent", "unsent"}

SeqToSet(s) == {s[i] : i \in 1..Len(s)}

\* sendBatch(batch) up to its first await: it throws while building the
\* endpoint, or arms its timer and invokes fetchImpl, whose promise is pending.
SendBatchSync(f) ==
  IF EndpointThrows(ConfigBaseUrl(baseUrl), ConfigIngestPath(ingestPath))
  THEN [f EXCEPT !.fails = f.fails + 1, !.pc = "threw"]
  ELSE [f EXCEPT !.calls = f.calls + 1, !.pc = "fetching"]

\* A flushOnce that ran its send to the end before returning to its caller.
NewFlightAwaited(recs) ==
  [ recs    |-> recs,
    attempt |-> 0,
    calls   |-> 1,
    fails   |-> 0,
    pc      |-> "delivered",
    ret     |-> Len(recs),
    warns   |-> 0,
    waits   |-> <<>> ]

\* The synchronous start of flushOnce on a non-empty queue: sendBatchWithRetry
\* enters its loop with attempt 0 and calls sendBatch.
NewFlight(recs) ==
  SendBatchSync([ recs    |-> recs,
                  attempt |-> 0,
                  calls   |-> 0,
                  fails   |-> 0,
                  pc      |-> "taken",
                  ret     |-> -1,
                  warns   |-> 0,
                  waits   |-> <<>> ])

\* A slice() in place of splice(): the batch is copied, the queue keeps it.
SpliceRestKeepsAll(q) == q

\* A splice that takes one record fewer than it removes.
SpliceTakenDropsLast(q) == SubSeq(q, 1, Min(Len(q), cfg.batchSize) - 1)

SpliceTaken(q) == SubSeq(q, 1, Min(Len(q), cfg.batchSize))

SpliceRest(q) == SubSeq(q, Min(Len(q), cfg.batchSize) + 1, Len(q))

\* The part of the client that capture and flushOnce change, as one value.
State == [queue |-> queue, droppedCount |-> droppedCount, batches |-> batches]

\* What flushOnce has returned by its first await: 0 on an empty queue, nothing
\* yet (-1, as in NewFlight) when a batch was taken.
FlushOnceEarlyReturn(st) == IF Len(st.queue) = 0 THEN 0 ELSE -1

\* A flushOnce without the empty-queue return: it sends whatever splice gives.
FlushOnceSyncNoEmptyCheck(st) ==
  [st EXCEPT !.queue = SpliceRest(st.queue),
             !.batches = Append(st.batches, NewFlight(SpliceTaken(st.queue)))]

\* flushOnce up to its first await.
FlushOnceSync(st) ==
  IF Len(st.queue) = 0
  THEN st
  ELSE [st EXCEPT !.queue = SpliceRest(st.queue),
                  !.batches = Append(st.batches, NewFlight(SpliceTaken(st.queue)))]

\* An off-by-one capacity test.
AtCapacityOffByOne(q) == Len(q) > cfg.maxQueueSize

AtCapacity(q) == Len(q) >= cfg.maxQueueSize

\* pop() in place of shift(): the newest record is evicted.
EvictNewest(q) == SubSeq(q, 1, Len(q) - 1)

\* An eviction that removes the two oldest records where there are two.
EvictTwo(q) == IF Len(q) > 1 THEN Tail(Tail(q)) ELSE Tail(q)

\* this.queue.shift()
Evict(q) == Tail(q)

\* A size trigger that waits for one record more than batchSize.
ReachesBatchSizeLate(q) == Len(q) > cfg.batchSize

ReachesBatchSize(q) == Len(q) >= cfg.batchSize

\* A captureRecord without the isEnabled() return.
CaptureRecordIgnoresEnabled(st, r, en) ==
  LET full == AtCapacity(st.queue)
      q1 == IF full THEN Evict(st.queue) ELSE st.queue
      d1 == IF full THEN st.droppedCount + 1 ELSE st.droppedCount
      q2 == Append(q1, r)
      st2 == [st EXCEPT !.queue = q2, !.droppedCount = d1]
  IN IF ReachesBatchSize(q2) THEN FlushOnceSync(st2) ELSE st2

\* unshift() in place of push(): the new record goes to the front.
CaptureRecordUnshift(st, r, en) ==
  IF ~en
  THEN st
  ELSE LET full == AtCapacity(st.queue)
           q1 == IF full THEN Evict(st.queue) ELSE st.queue
           d1 == IF full THEN st.droppedCount + 1 ELSE st.droppedCount
           q2 == <<r>> \o q1
           st2 == [st EXCEPT !.queue = q2, !.droppedCount = d1]
       IN IF ReachesBatchSize(q2) THEN FlushOnceSync(st2) ELSE st2

\* captureRecord(record) on a client whose enabled flag is en.
CaptureRecord(st, r, en) ==
  IF ~en
  THEN st
  ELSE LET full == AtCapacity(st.queue)
           q1 == IF full THEN Evict(st.queue) ELSE st.queue
           d1 == IF full THEN st.droppedCount + 1 ELSE st.droppedCount
           q2 == Append(q1, r)
           st2 == [st EXCEPT !.queue = q2, !.droppedCount = d1]
       IN IF ReachesBatchSize(q2) THEN FlushOnceSync(st2) ELSE st2

\* A captureMany that walks its list from the last item to the first.
RECURSIVE CaptureManyReversed(_, _, _, _)
CaptureManyReversed(st, first, n, en) ==
  IF n = 0 THEN st
  ELSE CaptureManyReversed(CaptureRecord(st, first + n - 1, en), first, n - 1, en)

\* Arguments given to captureMany: a list, kept as its length (its items are
\* the next records), or something that is not a list.
ManyInputs == [isArray : BOOLEAN, n : 0..MaxMany]

\* What captureMany iterates over: the list, or nothing when the argument is
\* not a list.
ItemsOf(arg) == IF arg.isArray THEN arg.n ELSE 0

\* The loop of captureMany over n items, the first being record `first`.
RECURSIVE CaptureManyFrom(_, _, _, _)
CaptureManyFrom(st, first, n, en) ==
  IF n = 0 THEN st
  ELSE CaptureManyFrom(CaptureRecord(st, first, en), first + 1, n - 1, en)

SetState(st) ==
  /\ queue' = st.queue
  /\ droppedCount' = st.droppedCount
  /\ batches' = st.batches

\* ------------------------------------------------------------ flushAll
IdleTask == [pc |-> "idle", cur |-> 0, total |-> 0, ret |-> -1]

\* A flushAll that starts flushOnce and returns without awaiting it.
FlushAllLoopNoAwait(st, total) ==
  [st |-> FlushOnceSync(st),
   task |-> [pc |-> "done", cur |-> 0, total |-> total, ret |-> total]]

\* The head of flushAll's while loop, reached with `total` accumulated: either
\* the queue is empty and flushAll returns, or flushOnce starts and is awaited.
FlushAllLoop(st, total) ==
  IF Len(st.queue) > 0
  THEN [st |-> FlushOnceSync(st),
        task |-> [pc |-> "await", cur |-> Len(st.batches) + 1, total |-> total, ret |-> -1]]
  ELSE [st |-> st,
        task |-> [pc |-> "done", cur |-> 0, total |-> total, ret |-> total]]

\* A flushAll without the `sent <= 0` break: it goes on after a failed batch.
FlushAllResumeIgnoresFailure(st, task) ==
  FlushAllLoop(st, task.total + Max(st.batches[task.cur].ret, 0))

\* A flushAll that keeps waiting after a flushOnce that sent nothing.
FlushAllResumeWaitsOn(st, task) ==
  IF st.batches[task.cur].ret <= 0
  THEN [st |-> st, task |-> task]
  ELSE FlushAllLoop(st, task.total + st.batches[task.cur].ret)

\* flushAll resumes with the value the awaited flushOnce returned.
FlushAllResume(st, task) ==
  LET sent == st.batches[task.cur].ret
  IN IF sent <= 0
     THEN [st |-> st,
           task |-> [pc |-> "done", cur |-> 0, total |-> task.total, ret |-> task.total]]
     ELSE FlushAllLoop(st, task.total + sent)

\* ------------------------------------------------------------ retry
ResponseOk(outcome) == outcome = "ok"
Outcomes == {"ok", "status", "error", "timeout"}

LoopContinues(attempt) == attempt <= cfg.maxRetries

\* 2 ** attempt
RECURSIVE Pow2(_)
Pow2(n) == IF n = 0 THEN 1 ELSE 2 * Pow2(n - 1)

\* A backoff without its cap.
BackoffMsUncapped(attempt) == cfg.retryBackoffBaseMs * Pow2(attempt)

\* The sleep that follows failed attempt number `attempt`.
BackoffMs(attempt) ==
  Min(cfg.retryBackoffBaseMs * Pow2(attempt), cfg.retryBackoffMaxMs)

\* A retry that sends the batch without its first record.
NextAttemptSendsRest(f, a) ==
  SendBatchSync([f EXCEPT !.attempt = a, !.recs = Tail(f.recs)])

\* The loop of sendBatchWithRetry comes round with attempt a: sendBatch is
\* called again with the same batch.
NextAttempt(f, a) == SendBatchSync([f EXCEPT !.attempt = a])

RetriesExhausted(attempt) == attempt >= cfg.maxRetries

\* Reporting the number of batches sent in place of the number of records.
FlushOnceResultCountsBatches(sent, recs) == IF sent THEN 1 ELSE 0

\* What flushOnce returns once sendBatchWithRetry has returned `sent`.
FlushOnceResult(sent, recs) == IF sent THEN Len(recs) ELSE 0

\* Putting a failed batch back at the front of the queue.
QueueAfterDropRequeues(q, recs) == recs \o q

\* The queue after flushOnce has given up on a batch: the batch is discarded.
QueueAfterDrop(q, recs) == q

\* ------------------------------------------------------------ scheduler
\* A start() that sets an interval whatever the state of the client.
StartArmsAlways(hasInterval, en) == TRUE

\* A start() that only looks at the interval handle.
StartArmsIgnoresEnabled(hasInterval, en) == ~hasInterval

\* start() goes past its early return and calls setInterval.
StartArms(hasInterval, en) == ~(hasInterval \/ ~en)

\* A stop() that never clears the interval it finds.
StopClearsNever(hasInterval) == FALSE

\* stop() goes past its early return and calls clearInterval.
StopClears(hasInterval) == ~(~hasInterval)

\* ------------------------------------------------------------ Init
\* The baseUrl options of the telemetry client: absent, or one that new URL
\* does not parse.
BaseUrlOptions == {<<>>, SchemelessBaseUrl}

Init ==
  \E input \in ConfigInputs :
    /\ cfg = EffectiveConfig(input)
    /\ enabled = input.enabled
    /\ timer = StartArms(FALSE, input.enabled)
    /\ armed = IF StartArms(FALSE, input.enabled) THEN 1 ELSE 0
    /\ instance = TRUE
    /\ queue = <<>>
    /\ droppedCount = 0
    /\ batches = <<>>
    /\ fa = IdleTask
    /\ sd = <<>>
    /\ nextId = 0
    /\ baseUrl \in BaseUrlOptions
    /\ ingestPath = <<>>
    /\ endpoint = <<>>
    /\ LifeParked
    /\ MwParked
    /\ NormParked
    /\ HooksParked

\* ------------------------------------------------------------ actions
Start ==
  /\ StartArms(timer, enabled)
  /\ timer' = TRUE
  /\ armed' = armed + 1
  /\ UNCHANGED <<aux, cfg, enabled, instance, queue, droppedCount, batches, fa, sd,
                 nextId>>

Stop ==
  /\ StopClears(timer)
  /\ timer' = FALSE
  /\ armed' = armed - 1
  /\ UNCHANGED <<aux, cfg, enabled, instance, queue, droppedCount, batches, fa, sd,
                 nextId>>

Capture ==
  /\ nextId < MaxCaptures
  /\ nextId' = IF enabled THEN nextId + 1 ELSE nextId
  /\ SetState(CaptureRecord(State, nextId + 1, enabled))
  /\ UNCHANGED <<aux, armed, cfg, enabled, timer, instance, fa, sd>>

CaptureMany ==
  \E n \in {ItemsOf(arg) : arg \in ManyInputs} :
    /\ nextId + n <= MaxCaptures
    /\ nextId' = IF enabled THEN nextId + n ELSE nextId
    /\ SetState(CaptureManyFrom(State, nextId + 1, n, enabled))
    /\ UNCHANGED <<aux, armed, cfg, enabled, timer, instance, fa, sd>>

TimerTick ==
  /\ timer
  /\ SetState(FlushOnceSync(State))
  /\ UNCHANGED <<aux, armed, cfg, enabled, timer, instance, fa, sd, nextId>>

FlushOnce ==
  /\ SetState(FlushOnceSync(State))
  /\ UNCHANGED <<aux, armed, cfg, enabled, timer, instance, fa, sd, nextId>>

FlushAll ==
  /\ fa.pc \in {"idle", "done"}
  /\ LET r == FlushAllLoop(State, 0)
     IN /\ SetState(r.st)
        /\ fa' = r.task
  /\ UNCHANGED <<aux, armed, cfg, enabled, timer, instance, sd, nextId>>

FlushAllContinue ==
  /\ fa.pc = "await"
  /\ batches[fa.cur].pc \in Final
  /\ LET r == FlushAllResume(State, fa)
     IN /\ SetState(r.st)
        /\ fa' = r.task
  /\ UNCHANGED <<aux, armed, cfg, enabled, timer, instance, sd, nextId>>

\* handleShutdown up to its first await: the end of the call when flush is
\* false. Nothing keeps the host from calling it again, whether or not an
\* earlier call has resolved.
HandleShutdown ==
  \E flush \in BOOLEAN :
    /\ flush => Len(sd) < MaxShutdowns
    /\ enabled' = FALSE
    /\ timer' = FALSE
    /\ armed' = IF StopClears(timer) THEN armed - 1 ELSE armed
    /\ IF flush
       THEN LET r == FlushAllLoop(State, 0)
            IN /\ SetState(r.st)
               /\ sd' = Append(sd, [pc |-> "await", task |-> r.task, snapshot |-> queue])
               /\ UNCHANGED instance
       ELSE /\ instance' = FALSE
            /\ UNCHANGED <<sd, queue, droppedCount, batches>>
    /\ UNCHANGED <<aux, cfg, fa, nextId>>

\* The flushAll of a handleShutdown call resumes after the flushOnce it awaits.
ShutdownFlushContinue ==
  \E i \in DOMAIN sd :
    /\ sd[i].pc = "await"
    /\ sd[i].task.pc = "await"
    /\ batches[sd[i].task.cur].pc \in Final
    /\ LET r == FlushAllResume(State, sd[i].task)
       IN /\ SetState(r.st)
          /\ sd' = [sd EXCEPT ![i].task = r.task]
    /\ UNCHANGED <<aux, armed, cfg, enabled, timer, instance, fa, nextId>>

\* A handleShutdown call resumes after its flushAll and clears the instance.
ShutdownResolve ==
  \E i \in DOMAIN sd :
    /\ sd[i].pc = "await"
    /\ sd[i].task.pc = "done"
    /\ sd' = [sd EXCEPT ![i].pc = "resolved"]
    /\ instance' = FALSE
    /\ UNCHANGED <<aux, armed, cfg, enabled, timer, queue, droppedCount, batches, fa,
                   nextId>>

\* sendBatch resumes after its await of fetchImpl for the pending attempt of
\* batch b: it returns (ok: a 2xx response) or throws (a non-2xx response, a
\* rejected promise), having cleared its timer either way.
Settle(b, ok) ==
  LET f == batches[b]
  IN batches' = [batches EXCEPT ![b] =
       IF ok
       THEN [f EXCEPT !.pc = "responded"]
       ELSE [f EXCEPT !.pc = "threw", !.fails = f.fails + 1]]

\* The pending fetch of batch b settles: a 2xx response, a non-2xx response,
\* a rejected promise, or the rejection that follows the abort of the
\* per-attempt timeout.
FetchSettles ==
  \E b \in DOMAIN batches, ok \in {ResponseOk(outcome) : outcome \in Outcomes} :
    /\ batches[b].pc = "fetching"
    /\ Settle(b, ok)
    /\ UNCHANGED <<aux, armed, cfg, enabled, timer, instance, queue, droppedCount, fa, sd,
                   nextId>>

\* sendBatchWithRetry after its await of sendBatch: return true, or in the
\* catch block give up with a warning or start the backoff sleep.
RetryDecision(f) ==
  IF f.pc = "responded"
  THEN [f EXCEPT !.pc = "sent"]
  ELSE IF RetriesExhausted(f.attempt)
  THEN [f EXCEPT !.pc = "unsent", !.warns = f.warns + 1]
  ELSE [f EXCEPT !.pc = "backoff", !.waits = Append(f.waits, BackoffMs(f.attempt))]

\* sendBatchWithRetry resumes for batch b, whose sendBatch has returned or thrown.
SendBatchWithRetryResumes ==
  \E b \in DOMAIN batches :
    /\ batches[b].pc \in {"responded", "threw"}
    /\ batches' = [batches EXCEPT ![b] = RetryDecision(batches[b])]
    /\ UNCHANGED <<aux, armed, cfg, enabled, timer, instance, queue, droppedCount, fa, sd,
                   nextId>>

\* flushOnce after its await of sendBatchWithRetry: it returns the batch's
\* length, or logs the drop and returns 0.
FlushOnceReturn(f) ==
  IF f.pc = "sent"
  THEN [f EXCEPT !.pc = "delivered", !.ret = FlushOnceResult(TRUE, f.recs)]
  ELSE [f EXCEPT !.pc = "dropped", !.warns = f.warns + 1,
                 !.ret = FlushOnceResult(FALSE, f.recs)]

\* flushOnce resumes for batch b, whose sendBatchWithRetry has returned.
FlushOnceResumes ==
  \E b \in DOMAIN batches :
    /\ batches[b].pc \in {"sent", "unsent"}
    /\ batches' = [batches EXCEPT ![b] = FlushOnceReturn(batches[b])]
    /\ queue' = IF batches[b].pc = "sent"
                THEN queue
                ELSE QueueAfterDrop(queue, batches[b].recs)
    /\ UNCHANGED <<aux, armed, cfg, enabled, timer, instance, droppedCount, fa, sd, nextId>>

\* The backoff sleep of batch b ends: attempt += 1 and, the loop condition
\* holding, sendBatch is called again; the return after the loop otherwise.
BackoffEnds ==
  \E b \in DOMAIN batches :
    /\ batches[b].pc = "backoff"
    /\ LET f == batches[b]
           a == f.attempt + 1
       IN IF LoopContinues(a)
          THEN batches' = [batches EXCEPT ![b] = NextAttempt(f, a)]
          ELSE batches' = [batches EXCEPT ![b] = [f EXCEPT !.attempt = a, !.pc = "unsent"]]
    /\ UNCHANGED <<aux, armed, cfg, enabled, timer, instance, queue, droppedCount, fa, sd,
                   nextId>>

Next ==
  \/ Start
  \/ Stop
  \/ Capture
  \/ CaptureMany
  \/ TimerTick
  \/ FlushOnce
  \/ FlushAll
  \/ FlushAllContinue
  \/ HandleShutdown
  \/ ShutdownFlushContinue
  \/ ShutdownResolve
  \/ FetchSettles
  \/ SendBatchWithRetryResumes
  \/ FlushOnceResumes
  \/ BackoffEnds

Spec == Init /\ [][Next]_vars

\* ================================================================ claims
BatchRecs(b) == SeqToSet(batches[b].recs)
InBatches == UNION {BatchRecs(b) : b \in DOMAIN batches}
InQueue == SeqToSet(queue)

\* Records that were pushed and are neither queued nor in any batch.
Evicted == (1..nextId) \ (InQueue \cup InBatches)

\* A step in which captureRecord pushed exactly one record.
OneCaptured == nextId' = nextId + 1

\* The records a single capture left behind it, oldest first: the batch its
\* size-triggered flush took (if any) followed by the queue.
AfterCapture ==
  (IF Len(batches') > Len(batches) THEN batches'[Len(batches')].recs ELSE <<>>)
    \o queue'

RECURSIVE CallsUpTo(_, _)
CallsUpTo(bs, n) == IF n = 0 THEN 0 ELSE bs[n].calls + CallsUpTo(bs, n - 1)

\* Number of fetchImpl invocations made so far.
TotalCalls == CallsUpTo(batches, Len(batches))

\* C1: in every reachable state the queue holds at most maxQueueSize records.
C1_QueueBounded == Len(queue) <= cfg.maxQueueSize

C1_Witness ==
  /\ cfg.maxQueueSize = 2
  /\ Len(queue) = 2
  /\ droppedCount >= 1

\* C2: a capture at capacity removes exactly the front record and appends the
\* new one at the back; a capture below capacity evicts nothing; droppedCount
\* never decreases and always equals the number of records evicted so far.
C2_DropOldest ==
  /\ [](droppedCount = Cardinality(Evicted))
  /\ [][ /\ droppedCount' >= droppedCount
         /\ OneCaptured =>
              IF Len(queue) >= cfg.maxQueueSize
              THEN /\ AfterCapture = Append(Tail(queue), nextId + 1)
                   /\ droppedCount' = droppedCount + 1
                   /\ Evicted' = Evicted \cup {Head(queue)}
              ELSE /\ AfterCapture = Append(queue, nextId + 1)
                   /\ droppedCount' = droppedCount
                   /\ Evicted' = Evicted ]_vars

C2_Witness ==
  /\ cfg.maxQueueSize = 2
  /\ cfg.batchSize > 2
  /\ queue = <<2, 3>>
  /\ droppedCount = 1

\* C3: no record is in two batches, or in a batch and still in the queue; a
\* batch never gains or loses a record after it was taken, so a record captured
\* during a send stays in the queue; a record leaves the queue only into a
\* batch or by eviction from the front (one front record per unit of
\* droppedCount).
C3_ExactlyOneBatch ==
  /\ [](/\ \A b1, b2 \in DOMAIN batches : b1 # b2 => BatchRecs(b1) \cap BatchRecs(b2) = {}
        /\ \A b \in DOMAIN batches : Cardinality(BatchRecs(b)) = Len(batches[b].recs)
        /\ InQueue \cap InBatches = {}
        /\ Cardinality(InQueue) = Len(queue))
  /\ [][ /\ Len(batches') >= Len(batches)
         /\ \A b \in DOMAIN batches : batches'[b].recs = batches[b].recs
         /\ \A r \in InQueue \ InQueue' :
              \/ r \in InBatches'
              \/ \E i \in 1..Min(Len(queue), droppedCount' - droppedCount) :
                   r = queue[i] ]_vars

\* A record captured while an earlier batch is still being sent waits in the queue.
C3_Witness ==
  \E b \in DOMAIN batches :
    /\ batches[b].pc \notin Final
    /\ \E i \in DOMAIN queue : \A r \in BatchRecs(b) : queue[i] > r

\* C4: a batch whose every attempt failed (as many failures as attempts made)
\* is dropped: flushOnce has logged, returned 0, none of its records is in the
\* queue or in another batch, and no further transport call is made for it.
C4_FailedBatchDiscarded ==
  /\ [](\A b \in DOMAIN batches :
          /\ (batches[b].pc \in Final /\ batches[b].fails = batches[b].attempt + 1)
               => batches[b].pc = "dropped"
          /\ batches[b].pc = "unsent" =>
               /\ batches[b].fails = batches[b].attempt + 1
               /\ batches[b].ret = -1
          /\ batches[b].pc = "dropped" =>
               /\ batches[b].fails = batches[b].attempt + 1
               /\ batches[b].ret = 0
               /\ batches[b].warns >= 1
               /\ BatchRecs(b) \cap InQueue = {}
               /\ \A b2 \in DOMAIN batches : b2 # b => BatchRecs(b) \cap BatchRecs(b2) = {})
  /\ [][ \A b \in DOMAIN batches :
           /\ batches[b].pc = "dropped" => batches'[b] = batches[b]
           /\ batches[b].pc = "unsent" =>
                /\ batches'[b].calls = batches[b].calls
                /\ batches'[b].pc \in {"unsent", "dropped"}
                /\ BatchRecs(b) \cap InQueue' = {} ]_vars

\* A batch was dropped and a later batch has since been taken and sent.
C4_Witness ==
  \E b, b2 \in DOMAIN batches :
    /\ b < b2
    /\ batches[b].pc = "dropped"
    /\ batches[b2].pc = "delivered"

\* C5: a batch delivered after N failures took exactly N+1 transport calls,
\* with N <= maxRetries, and its flush reported the batch's full size.
C5_RetryThenSuccess ==
  \A b \in DOMAIN batches :
    batches[b].pc = "delivered" =>
      /\ batches[b].calls = batches[b].fails + 1
      /\ batches[b].fails <= cfg.maxRetries
      /\ batches[b].ret = Len(batches[b].recs)

C5_Witness ==
  \E b \in DOMAIN batches :
    /\ batches[b].pc = "delivered"
    /\ batches[b].fails = cfg.maxRetries
    /\ batches[b].fails >= 1
    /\ Len(batches[b].recs) = 2

\* C6: every batch gets between 1 and maxRetries+1 transport calls; a batch is
\* reported failed exactly when maxRetries+1 calls have failed, and a batch
\* that reached its outcome gets no further call. The first part fails for a
\* client whose baseUrl does not parse: sendBatch throws before it reaches
\* fetchImpl, and the batch is dropped without a single transport call.
C6_AttemptsBounded ==
  /\ [](\A b \in DOMAIN batches :
          /\ 1 <= batches[b].calls
          /\ batches[b].calls <= cfg.maxRetries + 1
          /\ batches[b].fails = cfg.maxRetries + 1
               <=> batches[b].pc \in {"threw", "unsent", "dropped"}
                     /\ batches[b].attempt = cfg.maxRetries
          /\ batches[b].pc \in {"unsent", "dropped"} =>
               batches[b].calls = cfg.maxRetries + 1)
  /\ [][ \A b \in DOMAIN batches :
           (batches[b].pc \in Final \/ batches[b].fails = cfg.maxRetries + 1)
             => batches'[b].calls = batches[b].calls ]_vars

\* C7: with no transport call failing, once handleShutdown({flush:true}) has
\* resolved every record captured before it is in a batch whose send completed.
C7_ShutdownDeliversAll ==
  (/\ \E i \in DOMAIN sd : sd[i].pc = "resolved"
   /\ \A b \in DOMAIN batches : batches[b].fails = 0)
    => \A r \in 1..nextId :
         \E b \in DOMAIN batches : r \in BatchRecs(b) /\ batches[b].pc = "delivered"

\* C8: once a handleShutdown({flush:true}) call has resolved the queue is
\* empty, and every record that was queued at the call is in a batch that
\* reached its outcome; if that outcome is not delivery the batch was
\* attempted maxRetries+1 times, all failing, and the drop was logged.
C8_ShutdownDropPath ==
  \A i \in DOMAIN sd :
    sd[i].pc = "resolved" =>
      /\ queue = <<>>
      /\ \A r \in SeqToSet(sd[i].snapshot) :
           \E b \in DOMAIN batches :
             /\ r \in BatchRecs(b)
             /\ batches[b].pc \in Final
             /\ batches[b].pc # "delivered" =>
                  /\ batches[b].attempt = cfg.maxRetries
                  /\ batches[b].fails = cfg.maxRetries + 1
                  /\ batches[b].warns = 2
                  /\ batches[b].ret = 0

\* The record queued at the shutdown call was attempted twice and dropped.
C8_Witness ==
  \E i \in DOMAIN sd :
    /\ sd[i].pc = "resolved"
    /\ sd[i].snapshot # <<>>
    /\ cfg.maxRetries >= 1
    /\ \E b \in DOMAIN batches :
         /\ batches[b].recs = sd[i].snapshot
         /\ batches[b].pc = "dropped"
         /\ batches[b].calls = cfg.maxRetries + 1

\* C9: the flush a capture starts is still awaiting its first sendBatch when
\* the capture returns, and a capture is never blocked by sends in progress.
C9_CaptureNeverWaits ==
  /\ [][ nextId' > nextId =>
           \A b \in (Len(batches) + 1)..Len(batches') :
             /\ batches'[b].pc \in {"fetching", "threw"}
             /\ batches'[b].attempt = 0
             /\ batches'[b].ret = -1 ]_vars
  /\ []((enabled /\ nextId < MaxCaptures) => ENABLED (Capture /\ nextId' = nextId + 1))

\* A record was accepted while an earlier batch was backing off between attempts.
C9_Witness ==
  \E b \in DOMAIN batches :
    /\ batches[b].pc = "backoff"
    /\ \E b2 \in DOMAIN batches : b2 > b /\ batches[b2].pc = "fetching"

\* C10: no capture step invokes the transport function.
C10_CaptureMakesNoTransportCall ==
  [][ nextId' > nextId => TotalCalls' = TotalCalls ]_vars

\* C11: on a disabled client (constructed disabled, or after handleShutdown)
\* capture and captureMany change neither the queue nor droppedCount and start
\* no batch; no step of a disabled client adds a record or counts a drop.
C11_DisabledCaptureIsNoOp ==
  /\ [](~enabled =>
          /\ CaptureRecord(State, nextId + 1, enabled) = State
          /\ \A n \in 0..MaxMany :
               CaptureManyFrom(State, nextId + 1, n, enabled) = State)
  /\ [][ ~enabled =>
           /\ nextId' = nextId
           /\ droppedCount' = droppedCount
           /\ Len(queue') <= Len(queue)
           /\ InQueue' \subseteq InQueue ]_vars

\* A client shut down without flushing, records still queued, captures to come.
C11_Witness ==
  /\ ~enabled
  /\ ~instance
  /\ sd = <<>>
  /\ Len(queue) = 2
  /\ nextId < MaxCaptures

\* C12: on an empty queue flushOnce returns 0 at once and takes no batch,
\* flushAll returns 0 without awaiting anything, and no step other than an
\* accepted capture (so no timer tick) starts a send.
C12_EmptyFlushIsNoOp ==
  /\ [](queue = <<>> =>
          /\ FlushOnceEarlyReturn(State) = 0
          /\ FlushOnceSync(State) = State
          /\ FlushAllLoop(State, 0).st = State
          /\ FlushAllLoop(State, 0).task.pc = "done"
          /\ FlushAllLoop(State, 0).task.ret = 0)
  /\ [][ (queue = <<>> /\ nextId' = nextId) =>
           /\ Len(batches') = Len(batches)
           /\ queue' = <<>>
           /\ (fa' # fa /\ fa.pc # "await") => (fa'.pc = "done" /\ fa'.ret = 0) ]_vars

\* The timer is armed, the queue is empty, and a flushAll has returned 0.
C12_Witness ==
  /\ timer
  /\ queue = <<>>
  /\ batches = <<>>
  /\ fa.pc = "done"
  /\ fa.ret = 0

\* One step of a flushAll task from t to t2, as the loop of flushAll allows it.
FlushAllStep(t, t2) ==
  \/ t2 = t
  \/ /\ t.pc # "await"
     /\ IF queue = <<>>
        THEN t2.pc = "done" /\ t2.ret = 0 /\ Len(batches') = Len(batches)
        ELSE /\ t2.pc = "await" /\ t2.total = 0 /\ t2.cur = Len(batches) + 1
             /\ Len(batches') = Len(batches) + 1
             /\ batches'[t2.cur].recs = SpliceTaken(queue)
             /\ queue' = SpliceRest(queue)
  \/ /\ t.pc = "await"
     /\ batches[t.cur].pc \in Final
     /\ LET sent == batches[t.cur].ret
        IN IF sent <= 0
           THEN /\ t2.pc = "done" /\ t2.ret = t.total
                /\ Len(batches') = Len(batches)
                /\ queue' = queue
           ELSE IF queue = <<>>
           THEN /\ t2.pc = "done" /\ t2.ret = t.total + sent
                /\ Len(batches') = Len(batches)
           ELSE /\ t2.pc = "await" /\ t2.total = t.total + sent
                /\ t2.cur = Len(batches) + 1
                /\ Len(batches') = Len(batches) + 1
                /\ batches'[t2.cur].recs = SpliceTaken(queue)
                /\ queue' = SpliceRest(queue)

\* C13: flushAll starts a flushOnce only when the queue is non-empty and the
\* previous one has returned a positive count, adds that count to its total,
\* and returns the total when the queue is empty or a flushOnce returned 0;
\* after a failed batch it starts no further send and leaves the queue as it is.
C13_FlushAllSequential ==
  /\ [](/\ fa.pc = "await" => (fa.cur \in DOMAIN batches /\ fa.ret = -1)
        /\ fa.pc = "done" => (fa.ret = fa.total /\ fa.ret >= 0))
  /\ [][ /\ FlushAllStep(fa, fa')
         /\ \A i \in DOMAIN sd' :
              FlushAllStep(IF i \in DOMAIN sd THEN sd[i].task ELSE IdleTask,
                           sd'[i].task) ]_vars

\* flushAll awaited two batches, the second taken from records captured during
\* the first send, and returned the sum of their sizes.
C13_Witness ==
  /\ fa.pc = "done"
  /\ fa.ret = 3
  /\ nextId = 3
  /\ Len(batches) = 2
  /\ \A b \in DOMAIN batches : batches[b].pc = "delivered"

\* C14: the scheduler is idle (no interval) or active (exactly one interval).
\* start() arms one only from idle on an enabled client and is otherwise a
\* no-op; stop() clears it and is a no-op when idle; whatever start and stop
\* calls were made, at most one interval is armed.
C14_SchedulerTwoStates ==
  /\ [](/\ armed \in {0, 1}
        /\ timer <=> armed = 1
        /\ timer => ~ENABLED Start
        /\ ~enabled => ~ENABLED Start
        /\ (~timer /\ enabled) => ENABLED Start
        /\ timer <=> ENABLED Stop)
  /\ [][ /\ (timer' /\ ~timer) => (enabled /\ armed' = armed + 1)
         /\ (timer /\ ~timer') => armed' = armed - 1
         /\ timer' = timer => armed' = armed ]_vars

\* stop() has cleared the interval of an enabled client with work in progress;
\* start() can arm it again.
C14_Witness ==
  /\ ~timer
  /\ enabled
  /\ armed = 0
  /\ queue # <<>>
  /\ \E b \in DOMAIN batches : batches[b].pc = "fetching"

\* C24: the records the client holds (the queue plus the batches whose send is
\* not over) stay within a limit fixed by maxQueueSize and batchSize, whatever
\* the transport does.
C24_MemoryBounded ==
  LET RECURSIVE HeldUpTo(_)
      HeldUpTo(n) ==
        IF n = 0 THEN 0
        ELSE (IF batches[n].pc \in Final THEN 0 ELSE Len(batches[n].recs))
             + HeldUpTo(n - 1)
  IN Len(queue) + HeldUpTo(Len(batches)) <= cfg.maxQueueSize + cfg.batchSize

\* C25: the records discarded because every attempt of their batch failed are
\* counted in droppedCount.
C25_FailureDropsCounted ==
  LET RECURSIVE LostUpTo(_)
      LostUpTo(n) ==
        IF n = 0 THEN 0
        ELSE (IF batches[n].pc = "dropped" THEN Len(batches[n].recs) ELSE 0)
             + LostUpTo(n - 1)
  IN droppedCount >= LostUpTo(Len(batches))

\* C26: flushOnce on a non-empty queue removes exactly the first
\* min(n, batchSize) records in one step, the batch holding them in queue order
\* with its first send pending and the queue keeping the others in order; a
\* delivered batch's flushOnce returned the batch's length. Checked on the
\* queue as it stands, on the queue captureRecord hands over after its push,
\* and on queues longer than batchSize.
C26_FlushOnceTakesPrefix ==
  LET TakesPrefix(st) ==
        LET n == Len(st.queue)
            k == IF n <= cfg.batchSize THEN n ELSE cfg.batchSize
            st2 == FlushOnceSync(st)
        IN /\ Len(st2.batches) = Len(st.batches) + 1
           /\ \A b \in DOMAIN st.batches : st2.batches[b] = st.batches[b]
           /\ st2.batches[Len(st2.batches)].recs = [i \in 1..k |-> st.queue[i]]
           /\ st2.batches[Len(st2.batches)].pc = "fetching"
           /\ st2.batches[Len(st2.batches)].fails = 0
           /\ st2.queue = [i \in 1..(n - k) |-> st.queue[k + i]]
           /\ st2.droppedCount = st.droppedCount
      AfterPush ==
        [State EXCEPT !.queue =
           Append(IF AtCapacity(queue) THEN Evict(queue) ELSE queue, nextId + 1)]
  IN /\ queue # <<>> => TakesPrefix(State)
     /\ TakesPrefix(AfterPush)
     /\ nextId = 0 =>
          \A n \in 1..MaxCaptures : TakesPrefix([State EXCEPT !.queue = [i \in 1..n |-> i]])
     /\ \A b \in DOMAIN batches :
          batches[b].pc = "delivered" => batches[b].ret = Len(batches[b].recs)

\* A timer flush took both queued records (fewer than batchSize) and was
\* delivered, returning 2; a record captured since waits in the queue.
C26_Witness ==
  /\ cfg.batchSize > 2
  /\ queue = <<3>>
  /\ Len(batches) = 1
  /\ batches[1].recs = <<1, 2>>
  /\ batches[1].pc = "delivered"
  /\ batches[1].ret = 2

\* C28: records being named in capture order, the queue and every batch are
\* in capture order, every batch is a run of consecutive records except for
\* evicted ones, every record of an earlier batch was captured before every
\* record of a later batch, and batched records before the queued ones.
C28_FifoEndToEnd ==
  LET Increasing(s) == \A i \in 1..(Len(s) - 1) : s[i] < s[i + 1]
      Run(s) == \A i \in 1..(Len(s) - 1) :
                  \A r \in (s[i] + 1)..(s[i + 1] - 1) : r \in Evicted
      Last(s) == s[Len(s)]
  IN /\ Increasing(queue)
     /\ \A b \in DOMAIN batches :
          /\ batches[b].recs # <<>>
          /\ Increasing(batches[b].recs)
          /\ Run(batches[b].recs)
          /\ b > 1 => Last(batches[b - 1].recs) < batches[b].recs[1]
     /\ (batches # <<>> /\ queue # <<>>) => Last(Last(batches).recs) < queue[1]

\* A batch of the first two records, followed by a batch of the third.
C28_Witness ==
  /\ Len(batches) = 2
  /\ batches[1].recs = <<1, 2>>
  /\ batches[2].recs = <<3>>

\* C29: captureMany of a list has the effect of capture on each item in list
\* order (same queue, droppedCount and batches); with an empty list or an
\* argument that is not a list it changes nothing.
C29_CaptureManyIsSequence ==
  LET RECURSIVE CaptureOneByOne(_, _)
      CaptureOneByOne(st, n) ==
        IF n = 0 THEN st
        ELSE CaptureRecord(CaptureOneByOne(st, n - 1), nextId + n, enabled)
  IN \A arg \in ManyInputs :
       nextId + arg.n <= MaxCaptures =>
         CaptureManyFrom(State, nextId + 1, ItemsOf(arg), enabled)
           = IF arg.isArray /\ arg.n > 0 THEN CaptureOneByOne(State, arg.n) ELSE State

\* A captureMany of two records would flush after its first item here.
C29_Witness ==
  /\ enabled
  /\ nextId + 2 <= MaxCaptures
  /\ queue # <<>>
  /\ Len(queue) + 1 = cfg.batchSize

\* C37: record conservation. The records accepted by captureRecord (named
\* 1..nextId) are, each exactly once, in the queue, in a batch whose delivery
\* is in progress, in a delivered batch, in a batch dropped after its retries,
\* or evicted and counted by droppedCount.
C37_RecordConservation ==
  LET RECURSIVE RecordsIn(_, _)
      RecordsIn(n, pcs) ==
        IF n = 0 THEN 0
        ELSE (IF batches[n].pc \in pcs THEN Len(batches[n].recs) ELSE 0)
               + RecordsIn(n - 1, pcs)
      inProgress == RecordsIn(Len(batches), InProgress)
      delivered == RecordsIn(Len(batches), {"delivered"})
      dropped == RecordsIn(Len(batches), {"dropped"})
  IN /\ nextId = Len(queue) + inProgress + delivered + dropped + droppedCount
     /\ InQueue \cup InBatches \subseteq 1..nextId
     /\ Cardinality(InQueue \cup InBatches) = Len(queue) + inProgress + delivered + dropped
     /\ \A b \in DOMAIN batches : batches[b].pc \in InProgress \cup Final
     /\ InProgress \cap Final = {}

\* Three accepted records: one evicted, one delivered, one dropped after its
\* retries.
C37_Witness ==
  /\ nextId = 3
  /\ droppedCount = 1
  /\ queue = <<>>
  /\ \E b \in DOMAIN batches : batches[b].pc = "delivered"
  /\ \E b \in DOMAIN batches : batches[b].pc = "dropped"

\* C38: with batchSize at most maxQueueSize the queue is always shorter than
\* batchSize once a capture has returned, so nothing is ever evicted and
\* droppedCount stays 0; an eviction needs batchSize above maxQueueSize.
C38_NoEvictionWhenBatchFits ==
  /\ cfg.batchSize <= cfg.maxQueueSize =>
       /\ Len(queue) < cfg.batchSize
       /\ droppedCount = 0
       /\ Evicted = {}
  /\ (droppedCount > 0 \/ Evicted # {}) => cfg.batchSize > cfg.maxQueueSize

\* batchSize = maxQueueSize = 2: three captures, the second one flushed, a
\* failed delivery, and no eviction.
C38_Witness ==
  /\ cfg.batchSize = 2
  /\ cfg.maxQueueSize = 2
  /\ nextId = 3
  /\ Len(queue) = 1
  /\ Len(batches) = 1
  /\ batches[1].pc = "dropped"
  /\ droppedCount = 0

\* handleShutdown has been called: a call that flushes is in sd, a call that
\* does not has cleared the instance.
ShutdownCalled == sd # <<>> \/ ~instance

\* The batch taken in this step is the one a flushAll of handleShutdown awaits.
TakenByShutdown ==
  \E i \in DOMAIN sd' :
    /\ sd'[i].task.pc = "await"
    /\ sd'[i].task.cur = Len(batches')
    /\ i \in DOMAIN sd => sd'[i].task # sd[i].task

\* C39 as stated: an armed timer implies an enabled client; while no interval
\* is armed nothing ticks; once handleShutdown has been called the timer stays
\* disarmed; every flush that begins after the shutdown call is one of its own
\* flushAll; stop and shutdown leave the batches in flight as they are.
C39_OnlyShutdownFlushes ==
  /\ [](/\ timer => enabled
        /\ armed = (IF timer THEN 1 ELSE 0)
        /\ ShutdownCalled => (~timer /\ armed = 0 /\ ~enabled))
  /\ [][ /\ (ShutdownCalled' /\ Len(batches') > Len(batches)) => TakenByShutdown
         /\ (timer /\ ~timer') =>
              \A b \in DOMAIN batches : batches'[b] = batches[b] ]_vars

\* C39, amended: an armed timer implies an enabled client; while no interval
\* is armed nothing ticks; once handleShutdown has been called the timer stays
\* disarmed and the client disabled, so a flush that begins after the shutdown
\* call is never started by the timer or by a capture: it is one of the
\* shutdown's own flushAll or of a flushOnce/flushAll call the host makes
\* itself; stop and shutdown leave the batches in flight as they are.
C39_NoAutomaticFlushAfterShutdown ==
  /\ [](/\ timer => enabled
        /\ armed = (IF timer THEN 1 ELSE 0)
        /\ ShutdownCalled => (~timer /\ armed = 0 /\ ~enabled))
  /\ [][ /\ (ShutdownCalled' /\ Len(batches') > Len(batches)) =>
              /\ ~timer'
              /\ ShutdownCalled => ~timer
              /\ nextId' = nextId
              /\ Len(batches') = Len(batches) + 1
              /\ \/ TakenByShutdown
                 \/ fa'.pc = "await" /\ fa'.cur = Len(batches') /\ fa' # fa
                 \/ UNCHANGED <<fa, sd>>
         /\ (timer /\ ~timer') =>
              \A b \in DOMAIN batches : batches'[b] = batches[b] ]_vars

\* A client shut down without flush, with a batch a flushAll of the host took
\* still awaited, and an earlier batch delivered.
C39_Witness ==
  /\ ~instance
  /\ sd = <<>>
  /\ ~enabled
  /\ Len(batches) = 2
  /\ batches[1].pc = "delivered"
  /\ fa.pc = "await"
  /\ fa.cur = 2
  /\ batches[2].pc \in InProgress

\* ---------------------------------------------- batch size and retry waits
\* A client constructed with one of the wide options.
InitWide ==
  /\ \E input \in WideConfigInputs :
       /\ cfg = EffectiveConfig(input)
       /\ enabled = input.enabled
       /\ timer = StartArms(FALSE, input.enabled)
       /\ armed = IF StartArms(FALSE, input.enabled) THEN 1 ELSE 0
  /\ instance = TRUE
  /\ queue = <<>>
  /\ droppedCount = 0
  /\ batches = <<>>
  /\ fa = IdleTask
  /\ sd = <<>>
  /\ nextId = 0
  /\ LifeParked
  /\ EpParked
  /\ MwParked
  /\ NormParked
  /\ HooksParked

NextWide ==
  \/ Capture
  \/ TimerTick
  \/ FetchSettles
  \/ SendBatchWithRetryResumes
  \/ FlushOnceResumes
  \/ BackoffEnds

SpecWide == InitWide /\ [][NextWide]_vars

\* C23: the effective batch size is at least 1 and at most 1000, and no batch
\* handed to the transport holds more than 1000 records.
C23_BatchSizeWithinBackendLimit ==
  /\ cfg.batchSize >= 1
  /\ cfg.batchSize <= BackendMaxBatch
  /\ \A b \in DOMAIN batches : Len(batches[b].recs) <= BackendMaxBatch

\* C27: the wait after failed attempt k < maxRetries is
\* min(retryBackoffBaseMs * 2^k, retryBackoffMaxMs); the waits of a batch
\* never decrease and never exceed retryBackoffMaxMs; there is one wait per
\* failed attempt except the final one, started when sendBatchWithRetry
\* resumes after the failure, so none before the first attempt, none after a
\* success and none after the attempt that exhausts the retries.
C27_BackoffSchedule ==
  \A b \in DOMAIN batches :
    LET f == batches[b]
        w == f.waits
    IN /\ \A i \in DOMAIN w :
            /\ IF cfg.retryBackoffBaseMs * 2^(i - 1) <= cfg.retryBackoffMaxMs
               THEN w[i] = cfg.retryBackoffBaseMs * 2^(i - 1)
               ELSE w[i] = cfg.retryBackoffMaxMs
            /\ w[i] <= cfg.retryBackoffMaxMs
            /\ i - 1 < cfg.maxRetries
            /\ \A j \in DOMAIN w : i <= j => w[i] <= w[j]
       /\ Len(w) = IF f.pc = "backoff" THEN f.attempt + 1 ELSE f.attempt
       /\ f.fails = IF f.pc \in {"threw", "backoff", "unsent", "dropped"}
                    THEN f.attempt + 1 ELSE f.attempt
       /\ f.calls = f.attempt + 1
       /\ f.pc \in {"unsent", "dropped"} => f.attempt = cfg.maxRetries
       /\ f.pc = "threw" =>
            RetryDecision(f).waits =
              IF f.attempt < cfg.maxRetries
              THEN Append(w, Min(cfg.retryBackoffBaseMs * 2^f.attempt, cfg.retryBackoffMaxMs))
              ELSE w

\* A batch was dropped after waits of 3 and 4 ms: the cap of 4 ms cut the
\* second wait short.
C27_Witness ==
  /\ cfg.retryBackoffBaseMs = 3
  /\ cfg.retryBackoffMaxMs = 4
  /\ \E b \in DOMAIN batches :
       /\ batches[b].pc = "dropped"
       /\ batches[b].waits = <<3, 4>>

\* ================================================================ singleton
\* The registry ApiLensClient.instance over several constructor calls. A client
\* is kept as its enabled flag, its interval, the number of its handleShutdown
\* calls that are awaiting flushAll, and whether one of them has returned.

\* An option that may be absent (undefined) or hold a string, a string being a
\* sequence of characters.
Undefined == [given |-> FALSE, s |-> <<>>]
Str(s) == [given |-> TRUE, s |-> s]

\* JavaScript's a || b on such options: undefined and "" are falsy.
Falsy(v) == ~v.given \/ v.s = <<>>
OrElse(a, b) == IF Falsy(a) THEN b ELSE a

\* utils.ts isNonEmptyString, on a value that is a string.
isNonEmptyString(s) == Len(Trim(s)) > 0

\* config.apiKey as the constructor stores it.
EffectiveApiKey(input) ==
  Trim(OrElse(OrElse(input.apiKey, input.api_key), Str(<<>>)).s)

\* resolveFetch: FALSE when it throws.
resolveFetch(input) == input.fetchImpl \/ input.globalFetch

KeyStrings == {<<>>, <<" ">>, <<"k">>, <<" ", " ">>, <<" ", "k">>, <<"k", " ">>}

LifeInputs ==
  [ apiKey      : {Undefined} \cup {Str(s) : s \in KeyStrings},
    api_key     : {Undefined, Str(<<"k">>)},
    fetchImpl   : BOOLEAN,
    globalFetch : BOOLEAN,
    enabled     : BOOLEAN ]

NewClient(input) ==
  [ enabled |-> input.enabled,
    timer   |-> StartArms(FALSE, input.enabled),
    pending |-> 0,
    shut    |-> FALSE ]

\* A constructor that registers the instance before it validates the options.
ConstructRegistersFirst(reg, cls, input) ==
  IF reg # 0
  THEN [outcome |-> "already", registered |-> reg, clients |-> cls]
  ELSE [outcome |-> IF ~resolveFetch(input) THEN "noFetch"
                    ELSE IF ~isNonEmptyString(EffectiveApiKey(input)) THEN "noKey"
                    ELSE "ok",
        registered |-> Len(cls) + 1,
        clients |-> Append(cls, NewClient(input))]

\* new ApiLensClient(input) with ApiLensClient.instance = reg: how it ends and
\* what it leaves behind.
Construct(reg, cls, input) ==
  IF reg # 0
  THEN [outcome |-> "already", registered |-> reg, clients |-> cls]
  ELSE IF ~resolveFetch(input)
  THEN [outcome |-> "noFetch", registered |-> reg, clients |-> cls]
  ELSE IF ~isNonEmptyString(EffectiveApiKey(input))
  THEN [outcome |-> "noKey", registered |-> reg, clients |-> cls]
  ELSE [outcome |-> "ok", registered |-> Len(cls) + 1,
        clients |-> Append(cls, NewClient(input))]

\* client c's handleShutdown up to its await (flush) or to its end (no flush).
ShutdownCall(reg, cls, c, flush) ==
  IF flush
  THEN [registered |-> reg,
        clients |-> [cls EXCEPT ![c] = [@ EXCEPT !.enabled = FALSE, !.timer = FALSE,
                                                 !.pending = @ + 1]]]
  ELSE [registered |-> 0,
        clients |-> [cls EXCEPT ![c] = [@ EXCEPT !.enabled = FALSE, !.timer = FALSE,
                                                 !.shut = TRUE]]]

\* Held by the client variables while the registry is studied.
ClientParked ==
  /\ cfg = EffectiveConfig([batchSize |-> NotANumber, maxQueueSize |-> NotANumber,
                            maxRetries |-> Num(0),
                            retryBackoffBaseMs |-> NotANumber,
                            retryBackoffMaxMs |-> NotANumber, enabled |-> FALSE])
  /\ enabled = FALSE
  /\ timer = FALSE
  /\ armed = 0
  /\ instance = FALSE
  /\ queue = <<>>
  /\ droppedCount = 0
  /\ batches = <<>>
  /\ fa = IdleTask
  /\ sd = <<>>
  /\ nextId = 0

InitLife ==
  /\ LifeParked
  /\ ClientParked
  /\ EpParked
  /\ MwParked
  /\ NormParked
  /\ HooksParked

New ==
  \E input \in LifeInputs :
    /\ newCalls < MaxNewCalls
    /\ LET r == Construct(registered, clients, input)
       IN /\ Len(r.clients) <= MaxClients
          /\ registered' = r.registered
          /\ clients' = r.clients
          /\ lastNew' = r.outcome
    /\ newCalls' = newCalls + 1
    /\ UNCHANGED <<clientVars, epVars, mwVars, normVars, hookVars>>

\* ApiLensClient.shutdown(): handleShutdown() of the registered client, if any.
StaticShutdown ==
  /\ registered # 0
  /\ clients[registered].pending < MaxPending
  /\ LET r == ShutdownCall(registered, clients, registered, TRUE)
     IN /\ registered' = r.registered
        /\ clients' = r.clients
  /\ UNCHANGED <<lastNew, newCalls, clientVars, epVars, mwVars, normVars, hookVars>>

\* handleShutdown({flush}) called on any client constructed so far.
ClientHandleShutdown ==
  \E c \in DOMAIN clients, flush \in BOOLEAN :
    /\ clients[c].pending < MaxPending
    /\ LET r == ShutdownCall(registered, clients, c, flush)
       IN /\ registered' = r.registered
          /\ clients' = r.clients
    /\ UNCHANGED <<lastNew, newCalls, clientVars, epVars, mwVars, normVars, hookVars>>

\* The flushAll awaited by a handleShutdown of client c has returned:
\* ApiLensClient.instance = undefined.
ShutdownReturns ==
  \E c \in DOMAIN clients :
    /\ clients[c].pending > 0
    /\ clients' = [clients EXCEPT ![c] = [@ EXCEPT !.pending = @ - 1, !.shut = TRUE]]
    /\ registered' = 0
    /\ UNCHANGED <<lastNew, newCalls, clientVars, epVars, mwVars, normVars, hookVars>>

ClientStart ==
  \E c \in DOMAIN clients :
    /\ StartArms(clients[c].timer, clients[c].enabled)
    /\ clients' = [clients EXCEPT ![c] = [@ EXCEPT !.timer = TRUE]]
    /\ UNCHANGED <<registered, lastNew, newCalls, clientVars, epVars, mwVars, normVars, hookVars>>

ClientStop ==
  \E c \in DOMAIN clients :
    /\ StopClears(clients[c].timer)
    /\ clients' = [clients EXCEPT ![c] = [@ EXCEPT !.timer = FALSE]]
    /\ UNCHANGED <<registered, lastNew, newCalls, clientVars, epVars, mwVars, normVars, hookVars>>

NextLife ==
  \/ New
  \/ StaticShutdown
  \/ ClientHandleShutdown
  \/ ShutdownReturns
  \/ ClientStart
  \/ ClientStop

SpecLife == InitLife /\ [][NextLife]_vars

\* A client that was constructed and on which no handleShutdown has returned.
Live(c) == ~clients[c].shut
LiveClients == {c \in DOMAIN clients : Live(c)}

\* Options the constructor must accept: a transport and a key with a visible
\* character.
ValidInputs ==
  {input \in LifeInputs :
     /\ input.fetchImpl
     /\ input.apiKey.given
     /\ \E i \in DOMAIN input.apiKey.s : input.apiKey.s[i] # " "}

\* Options the claim says the constructor must reject: no transport, or a key
\* that is missing, empty or blank.
Blank(v) == ~v.given \/ \A i \in DOMAIN v.s : v.s[i] = " "
InvalidInputs ==
  {input \in LifeInputs :
     \/ ~input.fetchImpl /\ ~input.globalFetch
     \/ Blank(input.apiKey) /\ Blank(input.api_key)}

\* C15: at every moment at most one client is live (constructed, and no
\* handleShutdown of its own has returned), whatever constructor, shutdown and
\* handleShutdown calls were made, repeated ones on a shut-down client included.
C15_AtMostOneLive == Cardinality(LiveClients) <= 1

\* C16: a constructor call with a missing, empty or blank key, or without a
\* usable transport, throws, registers nothing, adds no client and arms no
\* timer, and a constructor call with valid options made next succeeds.
C16_FailedConstructionLeavesNothing ==
  /\ [](registered = 0 =>
          /\ \A input \in InvalidInputs :
               Construct(registered, clients, input).outcome \in {"noKey", "noFetch"}
          /\ \A input \in ValidInputs :
               Construct(registered, clients, input).outcome = "ok")
  /\ [][ (newCalls' = newCalls + 1 /\ lastNew' \in {"noKey", "noFetch"}) =>
           /\ registered = 0
           /\ registered' = 0
           /\ clients' = clients
           /\ \A input \in ValidInputs :
                LET r == Construct(registered', clients', input)
                IN /\ r.outcome = "ok"
                   /\ r.registered = Len(clients) + 1
                   /\ r.clients[r.registered].timer = input.enabled ]_vars

\* A construction failed on its key or its transport, and the next one
\* succeeded and armed its timer.
C16_Witness ==
  /\ newCalls = 2
  /\ Len(clients) = 1
  /\ lastNew = "ok"
  /\ registered = 1
  /\ clients[1].timer

\* C30: every handleShutdown call disables the client and disarms the timer
\* at once, runs flushAll only when flush is requested, and releases the
\* registration only after that flush has finished; with flush=false it makes
\* no transport call (the batches, which record every call, are as before) and
\* leaves queue and droppedCount alone; once a call has resolved a new client
\* can be constructed.
C30_ShutdownOrder ==
  /\ [](/\ ShutdownCalled => (~enabled /\ ~timer /\ armed = 0)
        /\ \A i \in DOMAIN sd :
             /\ sd[i].pc \in {"await", "resolved"}
             /\ sd[i].task.pc \in {"await", "done"}
             /\ sd[i].pc = "resolved" => (~instance /\ sd[i].task.pc = "done"))
  /\ [][ LET Constructs ==
               Construct(IF instance' THEN 1 ELSE 0, <<>>,
                         [apiKey |-> Str(<<"k">>), api_key |-> Undefined,
                          fetchImpl |-> TRUE, globalFetch |-> FALSE,
                          enabled |-> TRUE]).outcome = "ok"
         IN /\ Len(sd') > Len(sd) =>
                 /\ ~enabled' /\ ~timer'
                 /\ sd'[Len(sd')].pc = "await"
                 /\ instance' = instance
            /\ \A i \in DOMAIN sd :
                 (sd[i].pc # "resolved" /\ sd'[i].pc = "resolved") =>
                   /\ sd[i].task.pc = "done"
                   /\ sd'[i].task = sd[i].task
                   /\ Constructs
            /\ (instance /\ ~instance') =>
                 /\ Constructs
                 /\ \/ \E i \in DOMAIN sd : sd[i].pc = "await" /\ sd'[i].pc = "resolved"
                    \/ /\ ~enabled' /\ ~timer'
                       /\ UNCHANGED <<sd, queue, droppedCount, batches>> ]_vars

\* A shutdown with flush resolved after its flushAll delivered the two records
\* it found queued.
C30_Witness ==
  /\ \E i \in DOMAIN sd :
       /\ sd[i].pc = "resolved"
       /\ Len(sd[i].snapshot) = 2
       /\ sd[i].task.ret = 2
  /\ Len(batches) = 2
  /\ ~instance

\* ================================================================ endpoint
\* The options offered to the endpoint computation of sendBatch.
Origins == { <<"http", ":", "/", "/", "h:8000">>, <<"https", ":", "/", "/", "x">> }
BasePaths == { <<>>, <<"/", "api">>, <<"/", "api", "/", "v1">> }
TrailingSlashes == { <<>>, <<"/">>, <<"/", "/">> }

\* Values offered for the baseUrl option; <<>> is an absent option.
BaseUrlInputs ==
  {<<>>} \cup {o \o bp \o ts : o \in Origins, bp \in BasePaths, ts \in TrailingSlashes}

\* Values offered for the ingestPath option; <<>> is an absent option.
IngestPathInputs ==
  { <<>>,
    <<"ingest", "/", "requests">>,
    <<"/", "ingest", "/", "requests">>,
    <<"https", ":", "/", "/", "x", "/", "y">>,
    <<"HTTP", ":", "/", "/", "x", "/", "y">>,
    <<"HttpS", ":", "/", "/", "x", "/", "y">>,
    <<" ", "https", ":", "/", "/", "x", "/", "y">>,
    <<" ", "ingest", "/", "requests", " ">>,
    <<" ", "/", "ingest">>,
    <<"y">>,
    <<" ">>,
    <<"http", "/", "y">> }

InitEp ==
  /\ baseUrl \in BaseUrlInputs
  /\ ingestPath \in IngestPathInputs
  /\ endpoint = <<>>
  /\ ClientParked
  /\ LifeParked
  /\ MwParked
  /\ NormParked
  /\ HooksParked

\* sendBatch up to its call of fetchImpl(endpoint, ...).
SendBatchResolves ==
  /\ endpoint = <<>>
  /\ endpoint' = ResolveEndpoint(ConfigBaseUrl(baseUrl), ConfigIngestPath(ingestPath))
  /\ UNCHANGED <<baseUrl, ingestPath, clientVars, lifeVars, mwVars, normVars, hookVars>>

NextEp ==
  \/ SendBatchResolves

SpecEp == InitEp /\ [][NextEp]_vars

\* The base the claim's examples use, and the three results it names.
ExampleBase == <<"http", ":", "/", "/", "h:8000", "/", "api", "/", "v1">>
ExampleRelative ==
  <<"http", ":", "/", "/", "h:8000", "/", "api", "/", "v1", "/", "ingest", "/", "requests">>
ExampleRooted == <<"http", ":", "/", "/", "h:8000", "/", "ingest", "/", "requests">>
ExampleAbsolute == <<"https", ":", "/", "/", "x", "/", "y">>

\* The ingestPath in force, trimmed, and the baseUrl in force.
PathInForce == Trim(IF ingestPath = <<>> THEN DefaultIngestPath ELSE ingestPath)
BaseInForce == IF baseUrl = <<>> THEN DefaultBaseUrl ELSE baseUrl

\* The base without its last slash, if it ends with one.
BaseNoSlash ==
  IF BaseInForce[Len(BaseInForce)] = "/"
  THEN SubSeq(BaseInForce, 1, Len(BaseInForce) - 1)
  ELSE BaseInForce

\* C17: the endpoint is the (trimmed) ingestPath itself when it begins with
\* http:// or https:// in any letter case; else, when it begins with /, the
\* origin of baseUrl followed by it; else baseUrl (less one trailing slash),
\* a slash and the ingestPath. The three examples of the claim come out as
\* stated, with or without one trailing slash on the base.
C17_EndpointRules ==
  endpoint # <<>> =>
    /\ IF /\ Len(PathInForce) >= 4
          /\ PathInForce[1] \in {"http", "https", "HTTP", "HTTPS", "Http", "HttpS"}
          /\ SubSeq(PathInForce, 2, 4) = <<":", "/", "/">>
       THEN endpoint = PathInForce
       ELSE IF PathInForce # <<>> /\ Head(PathInForce) = "/"
       THEN endpoint = SubSeq(BaseInForce, 1, 5) \o PathInForce
       ELSE endpoint = BaseNoSlash \o <<"/">> \o PathInForce
    /\ baseUrl \in {ExampleBase, Append(ExampleBase, "/")} =>
         /\ ingestPath = <<"ingest", "/", "requests">> => endpoint = ExampleRelative
         /\ ingestPath = <<"/", "ingest", "/", "requests">> => endpoint = ExampleRooted
         /\ ingestPath = ExampleAbsolute => endpoint = ExampleAbsolute

\* The rooted example, resolved from the base written with a trailing slash.
C17_Witness ==
  /\ baseUrl = Append(ExampleBase, "/")
  /\ ingestPath = <<"/", "ingest", "/", "requests">>
  /\ endpoint = ExampleRooted

\* ================================================================ sendBatch
\* One send attempt in detail: sendBatch arms a timer that aborts the fetch,
\* and clears it in its finally block. `timeouts` holds the state of the timer
\* of the attempt numbered a of batch b: fired while the attempt is pending,
\* cleared once sendBatch has left its finally block, which is how it leaves
\* every timer, fired or not (the timer and its controller are locals of that
\* call); a timer with no entry is armed.

\* clearTimeout(timeout) in the finally block of sendBatch.
ClearTimeout(ev, b, a) ==
  (ev \ {[batch |-> b, attempt |-> a, event |-> "fired"]})
    \cup {[batch |-> b, attempt |-> a, event |-> "cleared"]}

\* capture on these clients, called MaxSendCaptures times at most.
CaptureSend ==
  /\ nextId < MaxSendCaptures
  /\ Capture

\* Options of the clients whose sends are followed attempt by attempt: batches
\* of two records, started by the capture that fills the queue or by the
\* flush interval or by the flushAll of a shutdown, and MaxRetriesInput retries.
SendConfigInputs ==
  [ batchSize    : {Num(2)},
    maxQueueSize : {NotANumber},
    maxRetries   : {Num(MaxRetriesInput)},
    retryBackoffBaseMs : {NotANumber},
    retryBackoffMaxMs  : {NotANumber},
    enabled      : {TRUE} ]

\* A client constructed with one of the options of `inputs`.
SendInit(inputs) ==
  /\ \E input \in inputs :
       /\ cfg = EffectiveConfig(input)
       /\ enabled = input.enabled
       /\ timer = StartArms(FALSE, input.enabled)
       /\ armed = IF StartArms(FALSE, input.enabled) THEN 1 ELSE 0
  /\ instance = TRUE
  /\ queue = <<>>
  /\ droppedCount = 0
  /\ batches = <<>>
  /\ fa = IdleTask
  /\ sd = <<>>
  /\ nextId = 0
  /\ baseUrl = <<"http", ":", "/", "/", "h:8000", "/", "api", "/">>
  /\ ingestPath = <<>>
  /\ endpoint = <<>>
  /\ timeouts = {}
  /\ resp = <<>>
  /\ LifeParked
  /\ MwParked
  /\ NormParked

InitSend == SendInit(SendConfigInputs)

\* The fetch of the pending attempt of batch b settles and sendBatch resumes,
\* clearing the timer in its finally block: a 2xx response, a non-2xx
\* response or a rejected promise, at any time; the rejection that answers an
\* abort, once the timer has fired.
FetchResponds ==
  \E b \in DOMAIN batches, outcome \in Outcomes :
    /\ batches[b].pc = "fetching"
    /\ outcome = "timeout" =>
         [batch |-> b, attempt |-> batches[b].attempt, event |-> "fired"] \in timeouts
    /\ Settle(b, ResponseOk(outcome))
    /\ timeouts' = ClearTimeout(timeouts, b, batches[b].attempt)
    /\ UNCHANGED <<lifeVars, epVars, mwVars, normVars, resp, armed, cfg, enabled, timer,
                   instance, queue, droppedCount, fa, sd, nextId>>

\* The armed timer of the pending attempt of batch b runs out: its callback
\* calls controller.abort() and nothing else. What becomes of the fetch is up
\* to fetchImpl, which may or may not observe the signal.
TimeoutFires ==
  \E b \in DOMAIN batches :
    /\ batches[b].pc = "fetching"
    /\ \A e \in timeouts : ~(e.batch = b /\ e.attempt = batches[b].attempt)
    /\ timeouts' = timeouts \cup
         {[batch |-> b, attempt |-> batches[b].attempt, event |-> "fired"]}
    /\ UNCHANGED <<clientVars, lifeVars, epVars, mwVars, normVars, resp>>

NextSend ==
  \/ CaptureSend
  \/ TimerTick
  \/ HandleShutdown
  \/ ShutdownFlushContinue
  \/ ShutdownResolve
  \/ FetchResponds
  \/ TimeoutFires
  \/ SendBatchWithRetryResumes
  \/ FlushOnceResumes
  \/ BackoffEnds

SpecSend == InitSend /\ [][NextSend]_vars

\* C34: every attempt has a timer of its own, which can fire only while the
\* attempt's fetch is pending and is cleared once the attempt is over; an
\* attempt whose timer fired ends as a failure, one of the at most
\* maxRetries + 1 attempts of its batch; a timer that fires touches no other
\* batch and no other attempt. The failure is not the client's doing: the
\* timer callback only aborts the signal, and the attempt ends as fetchImpl
\* decides, so an attempt whose timer fired can still be delivered.
C34_TimeoutPerAttempt ==
  /\ [](/\ \A e \in timeouts :
             /\ e.batch \in DOMAIN batches
             /\ e.attempt \in 0..batches[e.batch].attempt
             /\ e.event = "fired" =>
                  /\ batches[e.batch].pc = "fetching"
                  /\ batches[e.batch].attempt = e.attempt
        /\ \A b \in DOMAIN batches :
             /\ batches[b].calls <= cfg.maxRetries + 1
             /\ \A a \in 0..batches[b].attempt :
                  LET ev == {e.event : e \in {x \in timeouts : x.batch = b /\ x.attempt = a}}
                      pending == batches[b].pc = "fetching" /\ batches[b].attempt = a
                  IN pending <=> "cleared" \notin ev)
  /\ [][ /\ \A e \in timeouts' \ timeouts :
             e.event = "fired" =>
               /\ batches[e.batch].pc = "fetching"
               /\ batches[e.batch].attempt = e.attempt
               /\ batches' = batches
         /\ \A e \in timeouts :
             (e.event = "fired" /\ batches'[e.batch] # batches[e.batch]) =>
               /\ batches'[e.batch].pc = "threw"
               /\ batches'[e.batch].fails = batches[e.batch].fails + 1
               /\ batches'[e.batch].calls = batches[e.batch].calls ]_vars

\* Every transport call settles, by itself or in answer to the abort of its
\* timeout, every backoff sleep ends, and a continuation whose awaited
\* promise has settled runs.
SendFairness ==
  /\ WF_vars(FetchResponds)
  /\ WF_vars(SendBatchWithRetryResumes)
  /\ WF_vars(FlushOnceResumes)
  /\ WF_vars(BackoffEnds)
  /\ WF_vars(ShutdownFlushContinue)
  /\ WF_vars(ShutdownResolve)

\* Options of the clients whose sends are followed to their end: the same,
\* with one retry.
FairConfigInputs == {[input EXCEPT !.maxRetries = Num(1)] : input \in SendConfigInputs}

InitSendFair == SendInit(FairConfigInputs)

SpecSendFair == InitSendFair /\ [][NextSend]_vars /\ SendFairness

\* C35: under SendFairness every batch taken off the queue ends delivered, or
\* dropped with a warning, and every handleShutdown({flush: true}) call
\* resolves; the flushAll of a shutdown, which runs on a disabled client, makes
\* at most ceil(n / batchSize) flushOnce calls for the n records queued at the
\* call.
C35_SendsAndShutdownTerminate ==
  /\ \A b \in 1..MaxSendCaptures :
       (b \in DOMAIN batches) ~>
         (/\ b \in DOMAIN batches
          /\ batches[b].pc \in Final
          /\ batches[b].pc = "dropped" => batches[b].warns > 0)
  /\ \A i \in 1..MaxShutdowns :
       (i \in DOMAIN sd) ~>
         (i \in DOMAIN sd /\ sd[i].pc = "resolved" /\ sd[i].task.pc = "done")
  /\ [](\A i \in DOMAIN sd :
          LET n == Len(sd[i].snapshot)
              calls == Cardinality({b \in DOMAIN batches :
                                      BatchRecs(b) \subseteq SeqToSet(sd[i].snapshot)})
          IN /\ calls <= (n + cfg.batchSize - 1) \div cfg.batchSize
             /\ sd[i].task.pc = "done" =>
                  (queue = <<>> \/ \E b \in DOMAIN batches : batches[b].ret = 0))

\* A shutdown with flush found one record queued, made one flushOnce call
\* whose batch was dropped after a retry, and resolved.
C35_Witness ==
  \E i \in DOMAIN sd :
    /\ sd[i].pc = "resolved"
    /\ Len(sd[i].snapshot) = 1
    /\ cfg.batchSize = 2
    /\ batches[Len(batches)].recs = sd[i].snapshot
    /\ batches[Len(batches)].pc = "dropped"
    /\ batches[Len(batches)].calls = 2
    /\ batches[Len(batches)].warns = 2
    /\ [batch |-> Len(batches), attempt |-> 1, event |-> "cleared"] \in timeouts

\* What sendBatch hands to fetchImpl for batch f: the endpoint, and the init
\* object with its method, headers and JSON body.
FetchCall(f) ==
  [ url     |-> ResolveEndpoint(ConfigBaseUrl(baseUrl), ConfigIngestPath(ingestPath)),
    method  |-> "POST",
    headers |-> ("Content-Type" :> "application/json")
                  @@ ("X-API-Key" :> "config.apiKey")
                  @@ ("User-Agent" :> "config.userAgent"),
    body    |-> [requests |-> f.recs] ]

\* C40: every attempt made for a batch hands fetchImpl the same call: a POST
\* to the resolved endpoint with the Content-Type, X-API-Key and User-Agent
\* headers and the body {requests: records}, the records being those the
\* batch was taken with; no step (a capture, another flush, a shutdown, a
\* retry) changes the records of a batch already taken.
C40_AttemptsSendSameRequest ==
  [][ \A b \in DOMAIN batches' :
        /\ b \in DOMAIN batches =>
             /\ batches'[b].recs = batches[b].recs
             /\ batches'[b].calls \in {batches[b].calls, batches[b].calls + 1}
        /\ (b \notin DOMAIN batches \/ batches'[b].calls # batches[b].calls) =>
             LET c == FetchCall(batches'[b])
             IN /\ c.method = "POST"
                /\ c.url = BaseNoSlash \o <<"/">> \o PathInForce
                /\ UNCHANGED <<baseUrl, ingestPath, cfg>>
                /\ DOMAIN c.headers = {"Content-Type", "X-API-Key", "User-Agent"}
                /\ c.headers["Content-Type"] = "application/json"
                /\ c.body.requests = batches'[b].recs
                /\ c.body.requests # <<>>
                /\ b \in DOMAIN batches => c = FetchCall(batches[b]) ]_vars

\* A batch on its second attempt after a capture, a later flush and a
\* shutdown call, on a client with a baseUrl of its own.
C40_Witness ==
  /\ baseUrl # <<>>
  /\ Len(batches) = 2
  /\ batches[1].calls = 2
  /\ batches[1].pc = "fetching"
  /\ nextId = 2
  /\ ShutdownCalled

\* ================================================================ middleware
\* The Express middleware of createApiLensMiddleware over a few requests. A
\* request is kept with its method (a sequence of characters), how far its
\* handling has got, and counters of what the middleware did for it.

UpperChar(c) ==
  CASE c = "o" -> "O" [] c = "p" -> "P" [] c = "t" -> "T" [] c = "i" -> "I"
    [] c = "n" -> "N" [] c = "s" -> "S" [] c = "g" -> "G" [] c = "e" -> "E"
    [] OTHER -> c

\* A comparison of the method as it was sent.
KeepCase(m) == m

\* String.prototype.toUpperCase
ToUpperCase(m) == [i \in DOMAIN m |-> UpperChar(m[i])]

OPTIONS == <<"O", "P", "T", "I", "O", "N", "S">>

Methods ==
  { <<"G", "E", "T">>, <<"p", "o", "s", "t">>, OPTIONS,
    <<"o", "p", "t", "i", "o", "n", "s">>, <<"o", "P", "t", "I", "o", "N", "s">> }

\* What a handler passes to write or end: nothing (or ""), a string or Buffer,
\* or a value Buffer.byteLength rejects (a number, a plain object).
Chunks == {"none", "text", "invalid"}

\* Line 103: the middleware only calls next().
Skips(m) == ~mwEnabled \/ ~enabled \/ ToUpperCase(m) = OPTIONS

\* The middleware function called with a request of method m: the request as
\* the call leaves it, the handler chain entered through next().
Entered(m) ==
  LET fresh == [ method |-> m, phase |-> "handling", installed |-> FALSE,
                 nextCalls |-> 0, wrapCalls |-> 0, origCalls |-> 0,
                 captureCalls |-> 0, logged |-> 0, thrown |-> 0 ]
  IN IF Skips(m)
     THEN [fresh EXCEPT !.nextCalls = 1]
     ELSE [fresh EXCEPT !.installed = TRUE, !.nextCalls = 1]

\* The intercepted res.write / res.end called with chunk: Buffer.byteLength
\* throws on a value it rejects, before the original is called.
Wrapped(req, chunk) ==
  IF chunk = "invalid"
  THEN [req EXCEPT !.wrapCalls = @ + 1, !.thrown = @ + 1]
  ELSE [req EXCEPT !.wrapCalls = @ + 1, !.origCalls = @ + 1]

\* The finish handler: capture is called unless the bookkeeping before it
\* throws (the getConsumer callback); the catch then calls the error method
\* of the client's logger when the logger has one (logger.error?.).
FinishHandler(req, outcome, loggerHasError) ==
  IF outcome = "ok"
  THEN [req EXCEPT !.phase = "finished", !.captureCalls = @ + 1]
  ELSE [req EXCEPT !.phase = "finished",
                   !.logged = IF loggerHasError THEN @ + 1 ELSE @]

FinishOutcomes == {"ok", "consumerThrows"}

\* Options of the middleware's client, which the host has built, stopped
\* (stop()) and handed over as config.client, flushing it by hand: with the
\* default batchSize no capture of these few requests starts a flush, so
\* nothing of the client runs between the steps of the middleware.
MwConfigInputs ==
  [ batchSize    : {NotANumber},
    maxQueueSize : {NotANumber},
    maxRetries   : {Num(0)},
    retryBackoffBaseMs : {NotANumber},
    retryBackoffMaxMs  : {NotANumber},
    enabled      : BOOLEAN ]

InitMw ==
  /\ \E input \in MwConfigInputs :
       /\ cfg = EffectiveConfig(input)
       /\ enabled = input.enabled
       /\ timer = FALSE
       /\ armed = 0
  /\ instance = TRUE
  /\ queue = <<>>
  /\ droppedCount = 0
  /\ batches = <<>>
  /\ fa = IdleTask
  /\ sd = <<>>
  /\ nextId = 0
  /\ mwEnabled \in BOOLEAN
  /\ reqs = <<>>
  /\ LifeParked
  /\ EpParked
  /\ NormParked
  /\ HooksParked

\* Express calls the middleware with a new request.
Middleware ==
  \E m \in Methods :
    /\ Len(reqs) < MaxRequests
    /\ reqs' = Append(reqs, Entered(m))
    /\ UNCHANGED <<mwEnabled, clientVars, lifeVars, epVars, normVars, hookVars>>

\* The application calls res.write(chunk), before or after the response was
\* ended: through the interception when there is one, which does not look at
\* the state of the response; the middleware has no part in the call
\* otherwise.
HandlerWrites ==
  \E r \in DOMAIN reqs, chunk \in Chunks :
    /\ reqs[r].wrapCalls < MaxWrapCalls
    /\ reqs' = [reqs EXCEPT ![r] = IF @.installed THEN Wrapped(@, chunk) ELSE @]
    /\ UNCHANGED <<mwEnabled, clientVars, lifeVars, epVars, normVars, hookVars>>

\* The application calls res.end(chunk), for the first time or again:
\* through the interception when there is one. The original end ends a
\* response that is not ended yet, unless the call threw before reaching it
\* (in the interception, or in the original for a chunk it rejects).
HandlerEnds ==
  \E r \in DOMAIN reqs, chunk \in Chunks :
    /\ reqs[r].wrapCalls < MaxWrapCalls
    /\ LET w == IF reqs[r].installed THEN Wrapped(reqs[r], chunk) ELSE reqs[r]
       IN reqs' = [reqs EXCEPT ![r] =
            IF chunk = "invalid" \/ w.phase # "handling"
            THEN w
            ELSE [w EXCEPT !.phase = "ended"]]
    /\ UNCHANGED <<mwEnabled, clientVars, lifeVars, epVars, normVars, hookVars>>

\* The response emits finish; the handler registered with res.once runs.
ResponseFinishes ==
  \E r \in DOMAIN reqs, outcome \in FinishOutcomes, loggerHasError \in BOOLEAN :
    /\ reqs[r].phase = "ended"
    /\ IF reqs[r].installed
       THEN /\ reqs' = [reqs EXCEPT ![r] = FinishHandler(@, outcome, loggerHasError)]
            /\ IF outcome = "ok"
               THEN /\ SetState(CaptureRecord(State, r, enabled))
                    /\ nextId' = IF enabled THEN nextId + 1 ELSE nextId
               ELSE UNCHANGED <<queue, droppedCount, batches, nextId>>
       ELSE /\ outcome = "ok"
            /\ reqs' = [reqs EXCEPT ![r] = [@ EXCEPT !.phase = "finished"]]
            /\ UNCHANGED <<queue, droppedCount, batches, nextId>>
    /\ UNCHANGED <<mwEnabled, cfg, enabled, timer, instance, fa, sd, armed,
                   lifeVars, epVars, normVars, hookVars>>

NextMw ==
  \/ Middleware
  \/ HandlerWrites
  \/ HandlerEnds
  \/ ResponseFinishes

SpecMw == InitMw /\ [][NextMw]_vars

\* The method is the word OPTIONS in some mix of upper and lower case.
IsOptions(m) ==
  /\ Len(m) = 7
  /\ m[1] \in {"o", "O"} /\ m[2] \in {"p", "P"} /\ m[3] \in {"t", "T"}
  /\ m[4] \in {"i", "I"} /\ m[5] \in {"o", "O"} /\ m[6] \in {"n", "N"}
  /\ m[7] \in {"s", "S"}

\* C18: for an OPTIONS request, in any letter case and whatever the
\* configuration, the middleware has called next once, installed no
\* interception, made no capture call and thrown nothing, and the request is
\* neither queued nor in any batch.
C18_OptionsNeverCaptured ==
  \A r \in DOMAIN reqs :
    IsOptions(reqs[r].method) =>
      /\ reqs[r].nextCalls = 1
      /\ ~reqs[r].installed
      /\ reqs[r].wrapCalls = 0
      /\ reqs[r].captureCalls = 0
      /\ reqs[r].thrown = 0
      /\ r \notin InQueue \cup InBatches

\* With middleware and client enabled, a lower-case options request finished
\* uncaptured while the other request was captured.
C18_Witness ==
  /\ mwEnabled
  /\ enabled
  /\ Len(reqs) = 2
  /\ reqs[1].method = <<"o", "p", "t", "i", "o", "n", "s">>
  /\ reqs[1].phase = "finished"
  /\ reqs[2].captureCalls = 1
  /\ 2 \in InQueue \cup InBatches

\* C19: a non-OPTIONS request handled with middleware and client enabled
\* gets exactly one capture call: never more than one, however many write
\* and end calls are made, and one once its response has finished.
C19_ExactlyOneCapture ==
  \A r \in DOMAIN reqs :
    (~IsOptions(reqs[r].method) /\ mwEnabled /\ enabled) =>
      /\ reqs[r].captureCalls <= 1
      /\ reqs[r].phase = "finished" => reqs[r].captureCalls = 1

\* C20: no exception raised by the middleware's bookkeeping reaches the host:
\* next was called, and every intercepted write or end reached the original.
C20_BookkeepingNeverPropagates ==
  \A r \in DOMAIN reqs :
    /\ reqs[r].thrown = 0
    /\ reqs[r].nextCalls = 1
    /\ reqs[r].origCalls = reqs[r].wrapCalls

\* ================================================================ normalizer
\* The loosely typed values a capture argument may hold in a field: undefined,
\* a number (NaN when fin is false), a string or a Date (invalid when fin is
\* false).
VUndefined == [t |-> "undefined", fin |-> FALSE, n |-> 0, s |-> <<>>]
VNumber(fin, n) == [t |-> "number", fin |-> fin, n |-> n, s |-> <<>>]
VString(s) == [t |-> "string", fin |-> FALSE, n |-> 0, s |-> s]
VDate(fin, ms) == [t |-> "date", fin |-> fin, n |-> ms, s |-> <<>>]

\* What JavaScript takes for true in v || d.
Truthy(v) ==
  CASE v.t = "undefined" -> FALSE
    [] v.t = "number" -> v.fin /\ v.n # 0
    [] v.t = "string" -> v.s # <<>>
    [] OTHER -> TRUE

\* v || d
OrDefault(v, d) == IF Truthy(v) THEN v ELSE d

\* The decimal digits of a non-negative integer.
RECURSIVE Decimal(_)
Decimal(n) ==
  LET Digits == <<"0", "1", "2", "3", "4", "5", "6", "7", "8", "9">>
  IN IF n < 10 THEN <<Digits[n + 1]>>
     ELSE Decimal(n \div 10) \o <<Digits[(n % 10) + 1]>>

\* String(v) for a string or a number.
JsString(v) ==
  IF v.t = "string" THEN v.s
  ELSE IF ~v.fin THEN <<"N", "a", "N">>
  ELSE IF v.n < 0 THEN <<"-">> \o Decimal(-v.n)
  ELSE Decimal(v.n)

\* Number(v): a string is trimmed and read as an optionally signed decimal
\* integer, the blank string being 0; a Date gives its time value.
JsNumber(v) ==
  LET Digits == <<"0", "1", "2", "3", "4", "5", "6", "7", "8", "9">>
      IsDigit(c) == \E d \in DOMAIN Digits : Digits[d] = c
      RECURSIVE Value(_)
      Value(s) ==
        IF s = <<>> THEN 0
        ELSE 10 * Value(SubSeq(s, 1, Len(s) - 1))
             + (CHOOSE d \in 0..9 : Digits[d + 1] = s[Len(s)])
      t == Trim(v.s)
      neg == t # <<>> /\ t[1] = "-"
      d == IF neg THEN Tail(t) ELSE t
  IN CASE v.t = "undefined" -> NotANumber
       [] v.t \in {"number", "date"} -> [fin |-> v.fin, n |-> v.n]
       [] OTHER ->
            IF t = <<>> THEN Num(0)
            ELSE IF d # <<>> /\ \A i \in DOMAIN d : IsDigit(d[i])
            THEN Num(IF neg THEN 0 - Value(d) ELSE Value(d))
            ELSE NotANumber

\* utils.ts normalizePath
normalizePath(path) ==
  LET raw == Trim(JsString(OrDefault(path, VString(<<"/">>))))
  IN IF raw = <<>> THEN <<"/">>
     ELSE IF StartsWithSlash(raw) THEN raw
     ELSE <<"/">> \o raw

\* utils.ts toISO8601. The result is the current time (now), the ISO form of
\* the instant ms, or the RangeError Date.prototype.toISOString raises on an
\* invalid Date. Of the strings offered, Date parses "1970" (to 0) and not "no".
toISO8601(value) ==
  LET Now == [threw |-> FALSE, now |-> TRUE, ms |-> 0]
      Iso(ms) == [threw |-> FALSE, now |-> FALSE, ms |-> ms]
      RangeError == [threw |-> TRUE, now |-> FALSE, ms |-> 0]
      asDate == IF value.t = "string"
                THEN IF value.s = <<"1", "9", "7", "0">> THEN Num(0) ELSE NotANumber
                ELSE JsNumber(value)
  IN IF ~Truthy(value) THEN Now
     ELSE IF value.t = "date" THEN (IF value.fin THEN Iso(value.n) ELSE RangeError)
     ELSE IF ~asDate.fin THEN Now
     ELSE Iso(asDate.n)

\* client.ts normalizeRecord: the record, or the exception that ends the call.
normalizeRecord(input, defaultEnvironment) ==
  LET payload == input.f
      Text(v) == JsString(OrDefault(v, VString(<<>>)))
      ts == toISO8601(payload.timestamp)
  IN [ threw |-> ts.threw,
       rec |->
         [ timestamp |-> [now |-> ts.now, ms |-> ts.ms],
           environment |->
             JsString(OrDefault(OrDefault(payload.environment,
                                          VString(defaultEnvironment)),
                                VString(<<"p", "r", "o", "d", "u", "c", "t", "i", "o", "n">>))),
           method |-> ToUpperCase(JsString(OrDefault(payload.method,
                                                     VString(<<"G", "E", "T">>)))),
           path |-> normalizePath(OrDefault(payload.path, VString(<<"/">>))),
           status_code |-> toNonNegativeInt(JsNumber(payload.status_code), 0),
           response_time_ms |-> Max(toNumber(JsNumber(payload.response_time_ms), 0), 0),
           request_size |-> toNonNegativeInt(JsNumber(payload.request_size), 0),
           response_size |-> toNonNegativeInt(JsNumber(payload.response_size), 0),
           ip_address |-> Text(payload.ip_address),
           user_agent |-> Text(payload.user_agent),
           consumer_id |-> Text(payload.consumer_id),
           consumer_name |-> Text(payload.consumer_name),
           consumer_group |-> Text(payload.consumer_group),
           request_payload |-> Text(payload.request_payload),
           response_payload |-> Text(payload.response_payload) ] ]

\* Arguments offered to capture(): no argument at all (input || {}), the empty
\* object, objects with one field set to a value of the right or of a wrong
\* type, and an object as the SDK's own callers build it.
PayloadInputs ==
  LET Fields == {"timestamp", "environment", "method", "path", "status_code",
                 "response_time_ms", "request_size", "response_size", "ip_address",
                 "user_agent", "consumer_id", "consumer_name", "consumer_group",
                 "request_payload", "response_payload"}
      Checked == {"environment", "method", "path", "status_code",
                  "response_time_ms", "request_size", "response_size"}
      Empty == [k \in Fields |-> VUndefined]
      Strings == {<<>>, <<" ">>, <<"s">>, <<" ", "/", "s", " ">>, <<"-", "1">>,
                  <<"2">>, <<"n", "o">>}
      Plain == {VNumber(FALSE, 0), VNumber(TRUE, -1), VNumber(TRUE, 0),
                VNumber(TRUE, 2)} \cup {VString(s) : s \in Strings}
      Times == {VNumber(FALSE, 0), VNumber(TRUE, 0), VNumber(TRUE, 2),
                VString(<<>>), VString(<<"1", "9", "7", "0">>), VString(<<"n", "o">>),
                VDate(TRUE, 2), VDate(FALSE, 0)}
      Texts == {VNumber(TRUE, 2), VString(<<"s">>)}
      ValuesOf(k) == IF k = "timestamp" THEN Times
                     ELSE IF k \in Checked THEN Plain ELSE Texts
      Usual == [Empty EXCEPT !.method = VString(<<"p", "o", "s", "t">>),
                             !.path = VString(<<"s">>),
                             !.status_code = VNumber(TRUE, 2),
                             !.response_time_ms = VNumber(TRUE, 2)]
  IN {[given |-> FALSE, f |-> Empty], [given |-> TRUE, f |-> Empty],
      [given |-> TRUE, f |-> Usual]}
     \cup UNION {{[given |-> TRUE, f |-> [Empty EXCEPT ![k] = v]] : v \in ValuesOf(k)} :
                   k \in Fields}

InitNorm ==
  /\ \E en \in BOOLEAN, env \in {Undefined, Str(<<>>), Str(<<"s">>)} :
       /\ cfg = EffectiveConfig([batchSize |-> NotANumber, maxQueueSize |-> NotANumber,
                                 maxRetries |-> Num(0),
                                 retryBackoffBaseMs |-> NotANumber,
                                 retryBackoffMaxMs |-> NotANumber])
       /\ enabled = en
       /\ timer = StartArms(FALSE, en)
       /\ armed = IF StartArms(FALSE, en) THEN 1 ELSE 0
       /\ defaultEnv = OrElse(env, Str(<<"p", "r", "o", "d", "u", "c", "t", "i", "o", "n">>)).s
  /\ instance = TRUE
  /\ queue = <<>>
  /\ droppedCount = 0
  /\ batches = <<>>
  /\ fa = IdleTask
  /\ sd = <<>>
  /\ nextId = 0
  /\ payloads = <<>>
  /\ thrown = {}
  /\ LifeParked
  /\ EpParked
  /\ MwParked
  /\ HooksParked

\* capture(input): normalizeRecord runs first; what it throws leaves capture,
\* what it returns goes to captureRecord.
CapturePayload ==
  \E input \in PayloadInputs :
    /\ Len(payloads) < MaxPayloads
    /\ payloads' = Append(payloads, [via |-> "capture", given |-> input.given,
                                     f |-> input.f])
    /\ LET r == normalizeRecord(input, defaultEnv)
           k == Len(payloads) + 1
       IN IF r.threw
          THEN /\ thrown' = thrown \cup {k}
               /\ UNCHANGED <<queue, droppedCount, batches>>
          ELSE /\ thrown' = thrown
               /\ SetState(CaptureRecord(State, [id |-> k, rec |-> r.rec], enabled))
    /\ UNCHANGED <<cfg, enabled, timer, instance, fa, sd, nextId, armed, defaultEnv,
                   lifeVars, epVars, mwVars, hookVars>>

\* The objects offered to captureRecord().
RecordInputs == {input \in PayloadInputs : input.given}

\* An object as captureRecord receives it: the fields that were set, with the
\* values they were given.
RecordAsGiven(input) ==
  [k \in {x \in DOMAIN input.f : input.f[x] # VUndefined} |-> input.f[k]]

\* captureRecord(record) called by the host: the record is queued as it is,
\* without passing through normalizeRecord.
CaptureRecordCall ==
  \E input \in RecordInputs :
    /\ Len(payloads) < MaxPayloads
    /\ payloads' = Append(payloads, [via |-> "captureRecord", given |-> input.given,
                                     f |-> input.f])
    /\ SetState(CaptureRecord(State, [id |-> Len(payloads) + 1,
                                      rec |-> RecordAsGiven(input)], enabled))
    /\ UNCHANGED <<cfg, enabled, timer, instance, fa, sd, nextId, armed, defaultEnv,
                   thrown, lifeVars, epVars, mwVars, hookVars>>

\* The client has maxRetries 0, so no backoff sleep is ever started.
NextNorm ==
  \/ CapturePayload
  \/ CaptureRecordCall
  \/ TimerTick
  \/ FetchSettles
  \/ SendBatchWithRetryResumes
  \/ FlushOnceResumes

SpecNorm == InitNorm /\ [][NextNorm]_vars

\* C21: normalization never fails: every capture() call returns normally and, on
\* an enabled client, leaves exactly one complete record for its input; an
\* absent or unparsable timestamp (an unparsable string, an invalid Date)
\* becomes the current time.
C21_NormalizationNeverFails ==
  LET Items == {queue[i] : i \in DOMAIN queue}
               \cup UNION {{batches[b].recs[i] : i \in DOMAIN batches[b].recs} :
                             b \in DOMAIN batches}
      Unparsable == {VUndefined, VString(<<"n", "o">>), VDate(FALSE, 0)}
  IN \A k \in {c \in 1..Len(payloads) : payloads[c].via = "capture"} :
       /\ k \notin thrown
       /\ enabled =>
            /\ Cardinality({it \in Items : it.id = k}) = 1
            /\ \A it \in Items :
                 it.id = k =>
                   /\ DOMAIN it.rec =
                        {"timestamp", "environment", "method", "path", "status_code",
                         "response_time_ms", "request_size", "response_size",
                         "ip_address", "user_agent", "consumer_id", "consumer_name",
                         "consumer_group", "request_payload", "response_payload"}
                   /\ payloads[k].f.timestamp \in Unparsable => it.rec.timestamp.now

\* C22: once everything the client took has been delivered, every capture
\* input has exactly one record in the delivered batches, with an upper-case
\* method (GET when absent), a path that begins with / (just / when absent or
\* blank), the input's environment or else the configured one, status_code,
\* request_size and response_size non-negative integers (0 when missing,
\* negative or non-numeric) and a response_time_ms that is not negative.
C22_OneNormalizedRecordPerInput ==
  LET Sent(k) == {r \in UNION {{batches[b].recs[i] : i \in DOMAIN batches[b].recs} :
                                 b \in DOMAIN batches} : r.id = k}
      Missing(v) == v.t = "undefined"
      BlankText(v) == v.t = "string" /\ Trim(v.s) = <<>>
      BadNumber(v) ==
        \/ Missing(v)
        \/ v.t = "number" /\ (~v.fin \/ v.n < 0)
        \/ v.t = "string" /\ v.s \in {<<"s">>, <<" ", "/", "s", " ">>, <<"n", "o">>,
                                      <<"-", "1">>}
      FieldsOk(p, r) ==
        /\ r.method # <<>> /\ r.method = ToUpperCase(r.method)
        /\ ~Truthy(p.method) => r.method = <<"G", "E", "T">>
        /\ p.method = VString(<<"p", "o", "s", "t">>) => r.method = <<"P", "O", "S", "T">>
        /\ r.path # <<>> /\ r.path[1] = "/"
        /\ (Missing(p.path) \/ BlankText(p.path)) => r.path = <<"/">>
        /\ r.environment =
             IF p.environment.t = "string" /\ p.environment.s # <<>>
             THEN p.environment.s
             ELSE IF Missing(p.environment) \/ p.environment.t = "string"
             THEN defaultEnv
             ELSE r.environment
        /\ r.environment # <<>>
        /\ \A f \in {"status_code", "request_size", "response_size"} :
             /\ r[f] \in Nat
             /\ BadNumber(p[f]) => r[f] = 0
        /\ r.response_time_ms >= 0
  IN (enabled /\ queue = <<>> /\ \A b \in DOMAIN batches : batches[b].pc = "delivered")
       => \A k \in {c \in 1..Len(payloads) : payloads[c].via = "capture"} :
            /\ Cardinality(Sent(k)) = 1
            /\ \A it \in Sent(k) : FieldsOk(payloads[k].f, it.rec)

\* ================================================================ response
\* One request that went through the Express middleware with middleware and
\* client enabled: `resp` holds the constants and locals of that middleware
\* call (capture flags, ceiling, responseSize, bufferedSize, responseChunks),
\* the annotation on the request, the body the original write and end were
\* given, and the latest call of the intercepted write or end. Strings are
\* sequences of the characters "a" and "E", "E" standing for a character of
\* two bytes in UTF-8 and one byte in latin1; bytes are numbers.

\* A subarray that ignores the room left.
SubarrayWhole(raw, room) == raw

\* raw.subarray(0, room)
Subarray(raw, room) == SubSeq(raw, 1, Min(Len(raw), room))

\* A final size that always is the measured one.
FinalResponseSizeMeasured(contentLength, responseSize) == responseSize

\* finalResponseSize
FinalResponseSize(contentLength, responseSize) ==
  IF contentLength > 0 THEN contentLength ELSE responseSize

\* Consumer values: undefined, a string, or an object with some of the keys
\* the SDK reads.
ConsumerInputs ==
  LET NoKeys == [k \in {"id", "identifier", "consumer_id", "name", "consumer_name",
                        "group", "consumer_group"} |-> VUndefined]
      Value(t, s, o) == [t |-> t, s |-> s, o |-> o]
  IN { Value("undefined", <<>>, NoKeys),
       Value("string", <<>>, NoKeys),
       Value("string", <<"u">>, NoKeys),
       Value("object", <<>>, NoKeys),
       Value("object", <<>>, [NoKeys EXCEPT !.id = VString(<<"i">>),
                                            !.name = VString(<<"n">>),
                                            !.group = VString(<<"g">>)]) }

\* A string taken for the consumer's name as well.
consumerFromStringAsName(value) ==
  [ isNull |-> value.t = "undefined" \/ (value.t = "string" /\ value.s = <<>>),
    consumer_id |-> value.s, consumer_name |-> value.s, consumer_group |-> <<>> ]

\* express.ts consumerFromStringOrObject: null, or the three string fields.
consumerFromStringOrObject(value) ==
  LET Text(a, b, c) ==
        JsString(OrDefault(a, OrDefault(b, OrDefault(c, VString(<<>>)))))
      Null == [isNull |-> TRUE, consumer_id |-> <<>>, consumer_name |-> <<>>,
               consumer_group |-> <<>>]
  IN IF value.t = "undefined" \/ (value.t = "string" /\ value.s = <<>>)
     THEN Null
     ELSE IF value.t = "string"
     THEN [isNull |-> FALSE, consumer_id |-> value.s, consumer_name |-> <<>>,
           consumer_group |-> <<>>]
     ELSE [isNull |-> FALSE,
           consumer_id |-> Text(value.o.id, value.o.identifier, value.o.consumer_id),
           consumer_name |-> Text(value.o.name, value.o.consumer_name, VUndefined),
           consumer_group |-> Text(value.o.group, value.o.consumer_group, VUndefined)]

\* Arguments of a write or end call: the chunk (nothing, the empty string, a
\* string, or the callback in the chunk position, as in res.end(cb), which
\* Buffer.byteLength rejects), the encoding, whether a callback is passed
\* last, and what the original operation returns.
ChunkArgs ==
  [ chunk    : {VUndefined, VString(<<>>), VString(<<"a">>), VString(<<"E", "a">>)},
    encoding : {"undefined"},
    cb       : {FALSE},
    ret      : {TRUE} ]
  \cup
  [ chunk    : {VString(<<"E", "a">>)},
    encoding : {"latin1"},
    cb       : {FALSE},
    ret      : {TRUE} ]
  \cup
  [ chunk    : {VString(<<"a", "a">>),
                [t |-> "function", fin |-> FALSE, n |-> 0, s |-> <<>>]},
    encoding : {"undefined"},
    cb       : {TRUE},
    ret      : {FALSE} ]

\* The intercepted res.write / res.end (op) called with args: the bookkeeping,
\* then the call of the original operation.
Intercepted(r, op, args) ==
  LET normalizedEncoding == IF args.encoding = "latin1" THEN "latin1" ELSE "utf8"
      RECURSIVE Encode(_)
      Encode(s) ==
        IF s = <<>> THEN <<>>
        ELSE (IF s[1] = "a" THEN <<97>>
              ELSE IF normalizedEncoding = "latin1" THEN <<233>> ELSE <<195, 169>>)
             \o Encode(Tail(s))
      chunk == args.chunk
      rejected == Truthy(chunk) /\ chunk.t # "string"
      raw == Encode(chunk.s)
      byteLen == IF Truthy(chunk) THEN Len(raw) ELSE 0
      buffers == /\ r.capturePayloads
                 /\ r.logResponseBody
                 /\ r.maxPayloadBytes > 0
                 /\ Truthy(chunk)
                 /\ r.bufferedSize < r.maxPayloadBytes
      part == Subarray(raw, r.maxPayloadBytes - r.bufferedSize)
  IN IF rejected
     THEN [r EXCEPT !.calls = @ + 1,
                    !.last = [op |-> op, args |-> args, orig |-> <<>>, threw |-> TRUE,
                              ret |-> FALSE]]
     ELSE [r EXCEPT !.calls = @ + 1,
                    !.responseSize = @ + byteLen,
                    !.responseChunks = IF buffers THEN Append(@, part) ELSE @,
                    !.bufferedSize = IF buffers THEN @ + Len(part) ELSE @,
                    !.body = @ \o (IF Truthy(chunk) THEN raw ELSE <<>>),
                    !.phase = IF op = "end" /\ @ = "handling" THEN "ended" ELSE @,
                    !.last = [op |-> op, args |-> args,
                              orig |-> <<[chunk |-> args.chunk, encoding |-> args.encoding,
                                          cb |-> args.cb]>>,
                              threw |-> FALSE, ret |-> args.ret]]

\* The client is enabled with the default options; the host has built it,
\* stopped it (stop()) and handed it over as config.client, so the record of
\* the request stays queued until the host flushes. config.getConsumer is
\* absent, or a callback that returns nothing, a string or a consumer object.
InitResp ==
  /\ \E flags \in [capturePayloads : BOOLEAN, logResponseBody : BOOLEAN],
        maxPayloadBytes \in {NotANumber, Num(0), Num(2)},
        getConsumer \in {<<>>} \cup
          {<<c>> : c \in {x \in ConsumerInputs :
                            \/ x.t = "undefined"
                            \/ x.t = "string" /\ x.s # <<>>
                            \/ x.t = "object" /\ x.o.id.t = "string"}} :
       resp = [ capturePayloads |-> flags.capturePayloads,
                logResponseBody |-> flags.logResponseBody,
                maxPayloadBytes |-> Max(0, toNonNegativeInt(maxPayloadBytes,
                                                            DefaultMaxPayloadBytes)),
                getConsumer     |-> getConsumer,
                apilensConsumer |-> CHOOSE c \in ConsumerInputs : c.t = "undefined",
                responseChunks  |-> <<>>,
                responseSize    |-> 0,
                bufferedSize    |-> 0,
                body            |-> <<>>,
                calls           |-> 0,
                phase           |-> "handling",
                last            |-> <<>> ]
  /\ cfg = EffectiveConfig([batchSize |-> NotANumber, maxQueueSize |-> NotANumber,
                            maxRetries |-> Num(0),
                            retryBackoffBaseMs |-> NotANumber,
                            retryBackoffMaxMs |-> NotANumber])
  /\ enabled = TRUE
  /\ timer = FALSE
  /\ armed = 0
  /\ instance = TRUE
  /\ queue = <<>>
  /\ droppedCount = 0
  /\ batches = <<>>
  /\ fa = IdleTask
  /\ sd = <<>>
  /\ nextId = 0
  /\ timeouts = {}
  /\ LifeParked
  /\ EpParked
  /\ MwParked
  /\ NormParked

\* The application calls setConsumer(req, consumer), at any time.
SetConsumer ==
  \E consumer \in ConsumerInputs :
    /\ resp' = [resp EXCEPT !.apilensConsumer =
                  IF consumer.t = "string" /\ consumer.s = <<>>
                  THEN CHOOSE c \in ConsumerInputs : c.t = "undefined"
                  ELSE consumer,
                            !.last = [op |-> "setConsumer", args |-> consumer]]
    /\ UNCHANGED <<clientVars, lifeVars, epVars, mwVars, normVars, timeouts>>

\* The application calls res.write(chunk, encoding, cb), before or after the
\* response was ended: the interception does not look at the response.
ResWrite ==
  \E args \in ChunkArgs :
    /\ resp.calls < MaxWrapCalls
    /\ resp' = Intercepted(resp, "write", args)
    /\ UNCHANGED <<clientVars, lifeVars, epVars, mwVars, normVars, timeouts>>

\* The application calls res.end(chunk, encoding, cb), for the first time or
\* again.
ResEnd ==
  \E args \in ChunkArgs :
    /\ resp.calls < MaxWrapCalls
    /\ resp' = Intercepted(resp, "end", args)
    /\ UNCHANGED <<clientVars, lifeVars, epVars, mwVars, normVars, timeouts>>

\* The response emits finish: the handler registered with res.once resolves
\* the consumer, the payload and the size, and calls client.capture.
ResponseFinish ==
  \E header \in {VUndefined, VString(<<"0">>), VString(<<"5">>), VNumber(TRUE, 5)} :
    /\ resp.phase = "ended"
    /\ LET RECURSIVE Utf8(_)
           Utf8(b) ==
             IF b = <<>> THEN <<>>
             ELSE IF b[1] = 97 THEN <<"a">> \o Utf8(Tail(b))
             ELSE IF b[1] = 195 /\ Len(b) > 1 /\ b[2] = 169
             THEN <<"E">> \o Utf8(SubSeq(b, 3, Len(b)))
             ELSE <<"?">> \o Utf8(Tail(b))
           RECURSIVE Concat(_)
           Concat(chunks) ==
             IF chunks = <<>> THEN <<>> ELSE chunks[1] \o Concat(Tail(chunks))
           annotated == consumerFromStringOrObject(resp.apilensConsumer)
           consumer ==
             IF ~annotated.isNull THEN annotated
             ELSE IF resp.getConsumer = <<>>
             THEN consumerFromStringOrObject(CHOOSE c \in ConsumerInputs : c.t = "undefined")
             ELSE consumerFromStringOrObject(resp.getConsumer[1])
           responsePayload ==
             IF resp.capturePayloads /\ resp.logResponseBody
             THEN Utf8(Concat(resp.responseChunks))
             ELSE <<>>
           contentLength == toNumber(JsNumber(header), 0)
           finalResponseSize == FinalResponseSize(contentLength, resp.responseSize)
           payload ==
             [ timestamp        |-> VDate(TRUE, 0),
               environment      |-> VUndefined,
               method           |-> VString(<<"G", "E", "T">>),
               path             |-> VString(<<"/">>),
               status_code      |-> VNumber(TRUE, 200),
               response_time_ms |-> VNumber(TRUE, 0),
               request_size     |-> VNumber(TRUE, 0),
               response_size    |-> VNumber(TRUE, Max(finalResponseSize, 0)),
               ip_address       |-> VString(<<>>),
               user_agent       |-> VString(<<>>),
               consumer_id      |-> VString(consumer.consumer_id),
               consumer_name    |-> VString(consumer.consumer_name),
               consumer_group   |-> VString(consumer.consumer_group),
               request_payload  |-> VString(<<>>),
               response_payload |-> VString(responsePayload) ]
           r == normalizeRecord([given |-> TRUE, f |-> payload], defaultEnv)
       IN /\ SetState(CaptureRecord(State,
                        [id |-> 1, rec |-> r.rec, header |-> header], enabled))
          /\ nextId' = nextId + 1
    /\ resp' = [resp EXCEPT !.phase = "finished"]
    /\ UNCHANGED <<cfg, enabled, timer, instance, fa, sd, armed, lifeVars, epVars,
                   mwVars, normVars, timeouts>>

NextResp ==
  \/ SetConsumer
  \/ ResWrite
  \/ ResEnd
  \/ ResponseFinish

SpecResp == InitResp /\ [][NextResp]_vars

\* C31: for every sequence of write and end calls, made before or after the
\* response was ended, the buffered response bytes never exceed
\* maxPayloadBytes; with payload and response-body capture on, the buffer is
\* the first min(bytes written, maxPayloadBytes) bytes of the response body,
\* the body being the bytes of the chunks given to write and end in the order
\* of the calls; with either flag off, or a ceiling of 0, nothing is buffered
\* and response_payload is empty.
C31_BufferIsBoundedPrefix ==
  LET RECURSIVE Concat(_)
      Concat(chunks) == IF chunks = <<>> THEN <<>> ELSE chunks[1] \o Concat(Tail(chunks))
      buffer == Concat(resp.responseChunks)
      on == resp.capturePayloads /\ resp.logResponseBody
  IN /\ Len(buffer) <= resp.maxPayloadBytes
     /\ resp.bufferedSize = Len(buffer)
     /\ on => buffer = SubSeq(resp.body, 1, Min(Len(resp.body), resp.maxPayloadBytes))
     /\ (~on \/ resp.maxPayloadBytes = 0) =>
          /\ resp.responseChunks = <<>>
          /\ resp.phase = "finished" => queue[1].rec.response_payload = <<>>

\* A ceiling of 2: end("a"), then a write of a two-byte character and "a"
\* after the end, which is cut in the middle of the character; the response
\* then finished and the payload holds the two buffered bytes.
C31_Witness ==
  /\ resp.maxPayloadBytes = 2
  /\ resp.responseChunks = << <<97>>, <<195>> >>
  /\ resp.body = <<97, 195, 169, 97>>
  /\ resp.last.op = "write"
  /\ resp.phase = "finished"
  /\ queue[1].rec.response_payload = <<"a", "?">>

\* C32: whatever the capture flags and the ceiling, every write or end call,
\* before or after the end of the response, adds the byte length of its chunk
\* to the measured total, and nothing else changes the total; the captured
\* response_size is the declared Content-Length when it is positive, and the
\* total measured when the response finishes otherwise.
C32_ResponseSize ==
  [][ LET c == resp'.last.args.chunk
          latin == resp'.last.args.encoding = "latin1"
          byteLength == CASE c.s = <<"a">> -> 1
                          [] c.s = <<"a", "a">> -> 2
                          [] c.s = <<"E", "a">> -> IF latin THEN 2 ELSE 3
                          [] OTHER -> 0
      IN /\ resp'.calls = resp.calls + 1 =>
              resp'.responseSize =
                resp.responseSize + (IF resp'.last.threw THEN 0 ELSE byteLength)
         /\ resp'.calls = resp.calls => resp'.responseSize = resp.responseSize
         /\ resp.phase = "ended" /\ resp'.phase = "finished" =>
              queue'[1].rec.response_size =
                IF queue'[1].header \in {VString(<<"5">>), VNumber(TRUE, 5)}
                THEN 5
                ELSE resp.responseSize
         /\ queue # <<>> => queue' = queue ]_vars

\* With both capture flags off, end was called twice with "a" and the
\* response finished without a Content-Length: the record has size 2; another
\* response measured 3 bytes and declared 5.
C32_Witness ==
  /\ ~resp.capturePayloads
  /\ ~resp.logResponseBody
  /\ resp.phase = "finished"
  /\ resp.calls = 2
  /\ resp.last.op = "end"
  /\ resp.body = <<97, 97>>
  /\ resp.responseSize = 2
  /\ queue[1].header = VUndefined
  /\ queue[1].rec.response_size = 2

\* C33: the consumer of the captured record comes from the annotation the
\* request carries when the response finishes, if there is one, else from what
\* getConsumer returns: a non-empty string gives consumer_id with empty name
\* and group, an object its id, name and group, and neither gives three empty
\* fields; setConsumer with an empty value leaves the request without
\* annotation.
C33_ConsumerResolution ==
  /\ [](/\ resp.apilensConsumer.t = "string" => resp.apilensConsumer.s # <<>>
        /\ resp.last # <<>> /\ resp.last.op = "setConsumer" =>
             resp.apilensConsumer.t =
               (IF resp.last.args.t = "string" /\ resp.last.args.s = <<>>
                THEN "undefined" ELSE resp.last.args.t))
  /\ [][ resp.phase = "ended" /\ resp'.phase = "finished" =>
           LET Field(v) == IF v.t = "string" THEN v.s ELSE <<>>
               source == IF resp.apilensConsumer.t # "undefined"
                         THEN resp.apilensConsumer
                         ELSE IF resp.getConsumer # <<>> THEN resp.getConsumer[1]
                         ELSE resp.apilensConsumer
               rec == queue'[1].rec
           IN CASE source.t = "string" /\ source.s # <<>> ->
                     /\ rec.consumer_id = source.s
                     /\ rec.consumer_name = <<>>
                     /\ rec.consumer_group = <<>>
                [] source.t = "object" ->
                     /\ rec.consumer_id = Field(source.o.id)
                     /\ rec.consumer_name = Field(source.o.name)
                     /\ rec.consumer_group = Field(source.o.group)
                [] OTHER ->
                     /\ rec.consumer_id = <<>>
                     /\ rec.consumer_name = <<>>
                     /\ rec.consumer_group = <<>> ]_vars
  /\ [][queue # <<>> => queue' = queue]_vars

\* getConsumer returns a consumer object and the request was annotated with
\* the string "u" after the response was ended by the only end call: the
\* record carries the annotation, not the object.
C33_Witness ==
  /\ resp.phase = "finished"
  /\ resp.getConsumer # <<>>
  /\ resp.getConsumer[1].t = "object"
  /\ resp.calls = 1
  /\ resp.last.op = "setConsumer"
  /\ resp.apilensConsumer.s = <<"u">>
  /\ queue[1].rec.consumer_id = <<"u">>
  /\ queue[1].rec.consumer_name = <<>>
  /\ queue[1].rec.consumer_group = <<>>

\* C36: every call of the intercepted write or end calls the original once
\* with the same chunk, encoding and callback and returns what it returned,
\* whatever the capture flags and the state of the buffer.
C36_ForwardsUnchanged ==
  resp.last # <<>> /\ resp.last.op \in {"write", "end"} =>
    /\ ~resp.last.threw
    /\ resp.last.orig = <<[chunk |-> resp.last.args.chunk,
                           encoding |-> resp.last.args.encoding,
                           cb |-> resp.last.args.cb]>>
    /\ resp.last.ret = resp.last.args.ret

====
